---- MODULE Spec2Model ----
(***************************************************************************)
(* A model of catenae's Link (src/catenae/link.py): the engine threads     *)
(* launched by start(), the queues between them, the global RPC mutex,     *)
(* the output path (_produce and its callbacks), the main consumer's       *)
(* subscription loop and the shutdown path (suicide, signals).             *)
(***************************************************************************)
EXTENDS Integers, Sequences, FiniteSets, TLC

\* ------------------------------------------------------------------------
\* Bounds of the model
\* ------------------------------------------------------------------------
\* messages available on each main input topic
MaxMsgs == 2
\* envelopes one transform invocation returns at most
MaxOut == 2
\* messages available on the RPC topics
MaxRpc == 1
\* requests the JSON-RPC process forwards over the pipe
MaxDirect == 3
\* send() calls made by the user generator
MaxSend == 2
\* workers of a pool at most (num_main_threads, num_rpc_threads)
MaxPool == 2
\* add_input_topic / remove_input_topic calls made by user code
MaxOps == 2
\* invocations of a loop() target that are counted once suicide was called
MaxLate == 2
\* calls of consumer.commit that fail for one message at most
MaxFail == 3
\* rpc_call calls made to one link
MaxCalls == 2
\* ticks after which the clock stops advancing
MaxTime == 1
\* one tick of the clock, in the unit of utils.get_timestamp_ms: longer than
\* every budget of the window, be it read as seconds or as milliseconds
TickLength == 1000000

\* ------------------------------------------------------------------------
\* Program constants
\* ------------------------------------------------------------------------
\* window_size of _set_input_topic_assignments, in seconds
WindowSize == 900

VARIABLES
    \* configuration (_set_execution_opts)
    synchronous, sequential, input_mode, num_main_threads, num_rpc_threads,
    \* _input_topics, _changed_input_topics, _input_topic_assignments
    input_topics, changed_input_topics, input_topic_assignments,
    \* locals of _kafka_consumer_main
    cm_assign, cm_todo, subscription, start_time, assigned_time, consumer_closed,
    \* the clock (utils.get_timestamp_ms), in ticks since the last subscribe
    now,
    \* the user thread that calls add_input_topic / remove_input_topic
    user_pc, user_call, user_arg, user_ops,
    \* threads: position, stop flag (Thread.will_stop), holder of _rpc_lock
    pc, will_stop, rpc_lock,
    \* _input_messages, the two pools' task channels, _output_messages
    input_messages, tasks_main, tasks_rpc, output_messages,
    \* what each worker, the producer and the monitor have in hand
    work_cur, prod_cur, mon_cur,
    \* what has been taken from the bus, the pipe and the generator so far
    bus_in, rpc_polled, direct_polled, gen_sent,
    \* observations: published envelopes, executed callbacks, transform
    \* results, raised transforms, failed publishes, suicide calls, signals,
    \* replies sent over the pipe
    bus_out, fired, emitted, raised, produce_failed, suicide_called,
    sig_received, replies,
    \* _output_topics
    output_topics,
    \* start(): _launched, the producers created, the runs of _launch_threads,
    \* the position of each caller, the callers whose setup() raised, the
    \* exit status of the process
    launched, producers_made, launches, start_pc, setup_raised, exit_status,
    \* _store['by_uid'], _store['by_group'], the last add_to_store call
    by_uid, by_group, store_call,
    \* two running links A and B that announce themselves to each other: for
    \* each its announcement, the announcement it got, its bus RPC worker, its
    \* _rpc_lock, its pipe, its monitor, its `available` probe, its registry
    peers,
    \* a link addressed over the bus: its _uid, the name of its class, its
    \* _rpc_topics, and the rpc_call calls made to it with the topic each was
    \* published to and the pool its dispatcher gave it to
    rpc_link,
    \* observations: what producer.produce was called with, the RPC methods
    \* invoked, the requests received over the pipe
    produced, invoked, received,
    \* __init__: its arguments consumer_group and uid_consumer_group, the
    \* parsed command line, the name of the link's class, the attributes
    \* _consumer_group and _uid_consumer_group, and how far __init__ has got
    ctor_args, link_args, class_name, consumer_group, uid_consumer_group, init_pc,
    \* the invocations of a loop() target begun after suicide was called
    late_calls,
    \* _commit_kafka_message: its argument message, its locals commited and
    \* attempts, its position, and what it has done so far: calls of
    \* consumer.commit and warnings
    commit_message, commited, attempts, commit_pc, commit_log,
    \* observation: the operations called on the two consumer handles, each
    \* with the thread that called it
    consumer_ops

groupVars == <<ctor_args, link_args, class_name, consumer_group, uid_consumer_group, init_pc>>
commitVars == <<commit_message, commited, attempts, commit_pc, commit_log>>
confVars == <<synchronous, sequential, input_mode, num_main_threads, num_rpc_threads,
              groupVars, late_calls, commitVars>>
execVars == <<confVars, consumer_ops>>
startVars == <<launched, producers_made, launches, start_pc, setup_raised, exit_status>>
storeVars == <<by_uid, by_group, store_call, peers, rpc_link>>
linkVars == <<output_topics, startVars, storeVars>>
histVars == <<produced, invoked, received>>
\* the configuration, and with it what no thread of the data path writes
cfgVars == <<execVars, linkVars, histVars>>
topicVars == <<input_topics, changed_input_topics, input_topic_assignments>>
cmVars == <<cm_assign, cm_todo, subscription, start_time, assigned_time, consumer_closed>>
userVars == <<user_pc, user_call, user_arg, user_ops>>
queueVars == <<input_messages, tasks_main, tasks_rpc, output_messages>>
curVars == <<work_cur, prod_cur, mon_cur>>
envVars == <<bus_in, rpc_polled, direct_polled, gen_sent>>
obsVars == <<bus_out, fired, emitted, raised, produce_failed, sig_received, replies>>
vars == <<cfgVars, topicVars, cmVars, now, userVars, pc, will_stop, rpc_lock,
          queueVars, curVars, envVars, obsVars, suicide_called>>

\* ------------------------------------------------------------------------
\* Names
\* ------------------------------------------------------------------------
Topics == {"t1", "t2"}
RpcTopic == "catenae_rpc"
Signals == {"SIGINT", "SIGTERM", "SIGQUIT"}
MainPoolNames == <<"main1", "main2", "main3">>
RpcPoolNames == <<"rpc1", "rpc2", "rpc3">>
EngineThreads == {"producer", "input_handler", "consumer_rpc", "monitor",
                  "generator", "consumer_main"}
MainPool == {MainPoolNames[i] : i \in 1..MaxPool}
RpcPool == {RpcPoolNames[i] : i \in 1..MaxPool}
MainWorkers == {MainPoolNames[i] : i \in 1..num_main_threads}
RpcWorkers == {RpcPoolNames[i] : i \in 1..num_rpc_threads}
Workers == MainWorkers \cup RpcWorkers
Launched == EngineThreads \cup Workers
Threads == EngineThreads \cup MainPool \cup RpcPool \cup {"start", "loop"}
NoHolder == "free"
Msgs == (Topics \cup {RpcTopic}) \X (1..(MaxMsgs + MaxRpc + 1))
NoTask == [topic |-> "none", offset |-> 0, commit |-> FALSE, method |-> "none"]
NoWork == [task |-> NoTask, n |-> 0, ucb |-> FALSE, same |-> FALSE]
NoTopic == "None"
NoKey == [type |-> "none", val |-> <<>>]
NoElectron == [src |-> <<"none", 0>>, idx |-> 0, callbacks |-> <<>>, topic |-> NoTopic,
               key |-> NoKey]
NoRequest == [method |-> "none", is_notification |-> FALSE, id |-> 0]
Callers == {"main", "other"}
NoCall == [uid |-> "none", group |-> "none", host |-> "none", port |-> "none",
           probe |-> "none"]
EmptyDict == [k \in {} |-> k]
\* strings are sequences of code points; None and an attribute that is not
\* set are sequences no string is equal to
NoneValue == <<0>>
Unset == <<-1>>
\* self._uid, "u1"
Uid == <<117, 49>>
Range(s) == {s[i] : i \in 1..Len(s)}

\* ------------------------------------------------------------------------
\* Pure helpers
\* ------------------------------------------------------------------------
\* two links that have been launched and have not announced themselves yet
Links == {"A", "B"}
Other(l) == IF l = "A" THEN "B" ELSE "A"
FreshPeers ==
    [l \in Links |-> [announced |-> FALSE, inbox |-> "none", rpc |-> "idle", lock |-> NoHolder,
                      pipe |-> "empty", mon |-> "loop", probe |-> "none", store |-> {}]]

\* no link has been constructed to be called
NoLink == [uid |-> Unset, cls |-> Unset, topics |-> <<>>, calls |-> <<>>]

\* SetExecutionOpts had the pools kept their sizes in sequential mode
SetExecutionOptsKeepsPools(syn, seq, nrpc, nmain) ==
    [synchronous |-> syn,
     sequential |-> IF syn THEN TRUE ELSE seq,
     num_rpc_threads |-> nrpc,
     num_main_threads |-> nmain]

\* _set_execution_opts: synchronous forces sequential, and either of them
\* forces both pools to one worker
SetExecutionOpts(syn, seq, nrpc, nmain) ==
    [synchronous |-> syn,
     sequential |-> IF syn THEN TRUE ELSE seq,
     num_rpc_threads |-> IF syn \/ seq THEN 1 ELSE nrpc,
     num_main_threads |-> IF syn \/ seq THEN 1 ELSE nmain]

RECURSIVE Pow(_, _)
Pow(b, e) == IF e = 0 THEN 1 ELSE b * Pow(b, e - 1)

RECURSIVE SumPow(_, _)
\* sum over k < n of 1.7^k, scaled by 10^(elements_no - 1)
SumPow(n, elements_no) ==
    IF n = 0 THEN 0
    ELSE Pow(17, n - 1) * Pow(10, elements_no - n) + SumPow(n - 1, elements_no)

\* _get_index_assignment with base 1.7, in whole seconds: the first element
\* has the biggest value
GetIndexAssignment(window_size, index, elements_no) ==
    LET reverse_index == elements_no - index - 1
    IN (window_size * Pow(17, reverse_index) * Pow(10, elements_no - 1 - reverse_index))
           \div SumPow(elements_no, elements_no)

ParityAssignments == << [topic |-> "-1", budget |-> -1] >>

\* _set_input_topic_assignments; it raises (IndexError on _input_topics[0])
\* in exp mode when the list is empty, see AssignmentsRaise
SetInputTopicAssignments(topics, mode) ==
    IF mode = "parity" THEN ParityAssignments
    ELSE [i \in 1..Len(topics) |->
             [topic |-> topics[i],
              budget |-> GetIndexAssignment(WindowSize, i - 1, Len(topics))]]

AssignmentsRaise(topics, mode) == mode = "exp" /\ topics = <<>>

GetTimestampMs == now * TickLength

\* Link.in_time
InTime(start, assigned) == (start - GetTimestampMs) < assigned

\* _break_consumer_loop
BreakConsumerLoop(sub) == Len(sub) > 1 /\ input_mode # "parity"

\* suicide: the stop flag of every engine thread and of every pool worker
SuicideFlags == [t \in Threads |-> IF t \in Launched THEN TRUE ELSE will_stop[t]]

\* CanAcquire had _rpc_lock been no lock at all
CanAcquireAlways(t) == TRUE

\* Lock.acquire on _rpc_lock returns only when nobody holds it
CanAcquire(t) == rpc_lock = NoHolder

\* Callback.__bool__: a callback counts when it has a target
CommitCallback(task) == [name |-> "commit", msg |-> <<task.topic, task.offset>>]
UserCallback(task) == [name |-> "user", msg |-> <<task.topic, task.offset>>]

\* str.lower on the letters A to Z
LowerChar(cp) == IF cp >= 65 /\ cp <= 90 THEN cp + 32 ELSE cp
Lower(str) == [i \in 1..Len(str) |-> LowerChar(str[i])]

\* 'catenae_'
GroupPrefix == <<99, 97, 116, 101, 110, 97, 101, 95>>

\* the truth value of an argument that is None or a string
IsTruthy(v) == v # NoneValue /\ v # <<>>

\* hasattr(self, 'consumer_group'): the property of that name returns
\* self._consumer_group and raises AttributeError while it is not set
HasAttrConsumerGroup(attr) == attr # Unset

\* hasattr(self, 'uid_consumer_group'): the flag of the command line is kept
\* in _uid_consumer_group, and no attribute or property of Link has the
\* name without the underscore
HasAttrUidConsumerGroup(attr) == FALSE

\* _set_consumer_group(consumer_group, uid_consumer_group) with the
\* attributes as _load_args left them
SetConsumerGroup(arg_group, arg_uid, attr_group, attr_uid, uid, cls) ==
    LET group == IF HasAttrConsumerGroup(attr_group) THEN attr_group ELSE arg_group
        by_uid_flag == IF HasAttrUidConsumerGroup(attr_uid) THEN attr_uid = TRUE ELSE arg_uid
    IN IF by_uid_flag THEN GroupPrefix \o uid
       ELSE IF IsTruthy(group) THEN group
       ELSE GroupPrefix \o Lower(cls)

\* Link(), no argument and an empty command line
DefaultCtorArgs == [consumer_group |-> NoneValue, uid_consumer_group |-> FALSE]
NoLinkArgs == [consumer_group |-> NoneValue, uid_consumer_group |-> FALSE]
\* "Link"
LinkClassName == <<76, 105, 110, 107>>

\* ------------------------------------------------------------------------
\* Initial states: the link after __init__, before start(). consumed, rpcs,
\* directs and sends say how much of the input topics, the RPC topics, the
\* pipe and the generator's sends is already behind the link.
\* ------------------------------------------------------------------------
InitEngine(opts, mode, topics, outs, consumed, rpcs, directs, sends) ==
    /\ synchronous = opts.synchronous
    /\ sequential = opts.sequential
    /\ num_main_threads = opts.num_main_threads
    /\ num_rpc_threads = opts.num_rpc_threads
    /\ input_mode = mode
    /\ input_topics = topics
    /\ changed_input_topics = FALSE
    /\ input_topic_assignments = <<>>
    /\ cm_assign = <<>>
    /\ cm_todo = <<>>
    /\ subscription = <<>>
    /\ start_time = 0
    /\ assigned_time = 0
    /\ consumer_closed = FALSE
    /\ now = 0
    /\ user_pc = "idle"
    /\ user_call = "none"
    /\ user_arg = "none"
    /\ user_ops = 0
    /\ pc = [t \in Threads |-> "new"]
    /\ will_stop = [t \in Threads |-> FALSE]
    /\ rpc_lock = NoHolder
    /\ input_messages = <<>>
    /\ tasks_main = <<>>
    /\ tasks_rpc = <<>>
    /\ output_messages = <<>>
    /\ work_cur = [t \in MainPool \cup RpcPool |-> NoWork]
    /\ prod_cur = NoElectron
    /\ mon_cur = NoRequest
    /\ bus_in = [t \in Topics |-> consumed]
    /\ rpc_polled = rpcs
    /\ direct_polled = directs
    /\ gen_sent = sends
    /\ bus_out = <<>>
    /\ fired = <<>>
    /\ emitted = {}
    /\ raised = {}
    /\ produce_failed = FALSE
    /\ suicide_called = FALSE
    /\ sig_received = {}
    /\ replies = <<>>
    /\ output_topics = outs
    /\ launched = FALSE
    /\ producers_made = 0
    /\ launches = 0
    /\ start_pc = [c \in Callers |-> "idle"]
    /\ setup_raised = {}
    /\ exit_status = "none"
    /\ by_uid = EmptyDict
    /\ by_group = EmptyDict
    /\ store_call = NoCall
    /\ peers = FreshPeers
    /\ rpc_link = NoLink
    /\ produced = <<>>
    /\ invoked = <<>>
    /\ received = <<>>
    /\ late_calls = 0
    /\ commit_message = <<"none", 0>>
    /\ commited = FALSE
    /\ attempts = 0
    /\ commit_pc = "idle"
    /\ commit_log = <<>>
    /\ consumer_ops = {}

\* the same for Link() with an empty command line
InitWith(opts, mode, topics, outs, consumed, rpcs, directs, sends) ==
    /\ InitEngine(opts, mode, topics, outs, consumed, rpcs, directs, sends)
    /\ ctor_args = DefaultCtorArgs
    /\ link_args = NoLinkArgs
    /\ class_name = LinkClassName
    /\ uid_consumer_group = Unset
    /\ consumer_group = SetConsumerGroup(NoneValue, FALSE, Unset, Unset, Uid, LinkClassName)
    /\ init_pc = "ready"

\* ------------------------------------------------------------------------
\* start(), the joins, the signal handler
\* ------------------------------------------------------------------------
InitialPc(t) ==
    IF t \in EngineThreads THEN (IF t = "generator" THEN "run" ELSE "loop")
    ELSE IF t \in Workers THEN "idle"
    ELSE IF t = "start" THEN "joining"
    ELSE "absent"

\* start, called once and with a setup() that returns: _launched, the
\* producers, _launch_threads, _setup_signal_handlers, up to the first join
Start ==
    /\ pc["start"] = "new"
    /\ ~launched
    /\ launched' = TRUE
    /\ producers_made' = producers_made + 1
    /\ launches' = launches + 1
    /\ pc' = [t \in Threads |-> InitialPc(t)]
    /\ input_topic_assignments' =
           IF AssignmentsRaise(input_topics, input_mode) THEN input_topic_assignments
           ELSE SetInputTopicAssignments(input_topics, input_mode)
    /\ UNCHANGED <<execVars, output_topics, start_pc, setup_raised, exit_status,
                   storeVars, histVars, input_topics, changed_input_topics, cmVars, now, userVars,
                   will_stop, rpc_lock, queueVars, curVars, envVars, obsVars,
                   suicide_called>>

\* start: every join has returned, _exit(0)
JoinAll ==
    /\ pc["start"] = "joining"
    /\ \A t \in Launched : pc[t] = "done"
    /\ pc' = [pc EXCEPT !["start"] = "exited"]
    /\ UNCHANGED <<cfgVars, topicVars, cmVars, now, userVars, will_stop, rpc_lock,
                   queueVars, curVars, envVars, obsVars, suicide_called>>

\* _signal_handler: SIGTERM and SIGQUIT bind signal_mame and call suicide;
\* SIGINT binds signal_name, so the f-string raises in the main thread before
\* suicide is called
SignalCallsSuicide(sig) == sig \in {"SIGTERM", "SIGQUIT"}

Signal(sig) ==
    /\ pc["start"] = "joining"
    /\ sig \notin sig_received
    /\ sig_received' = sig_received \cup {sig}
    /\ IF SignalCallsSuicide(sig)
       THEN /\ will_stop' = SuicideFlags
            /\ suicide_called' = TRUE
            /\ pc' = pc
       ELSE /\ pc' = [pc EXCEPT !["start"] = "crashed"]
            /\ UNCHANGED <<will_stop, suicide_called>>
    /\ UNCHANGED <<cfgVars, topicVars, cmVars, now, userVars, rpc_lock, queueVars,
                   curVars, envVars, bus_out, fired, emitted, raised, produce_failed,
                   replies>>

\* ------------------------------------------------------------------------
\* start() step by step, for callers that run it at the same time
\* ------------------------------------------------------------------------
\* the thread objects suicide reaches for exist once _launch_threads has run
ThreadsExist == launches > 0

\* `if self._launched: return`
StartCheck(c) ==
    /\ start_pc[c] = "idle"
    /\ start_pc' = [start_pc EXCEPT ![c] = IF launched THEN "returned" ELSE "set"]
    /\ UNCHANGED <<execVars, output_topics, launched, producers_made, launches,
                   setup_raised, exit_status, storeVars, histVars, topicVars, cmVars,
                   now, userVars, pc, will_stop, rpc_lock, queueVars, curVars, envVars,
                   obsVars, suicide_called>>

\* `self._launched = True`
StartSetLaunched(c) ==
    /\ start_pc[c] = "set"
    /\ launched' = TRUE
    /\ start_pc' = [start_pc EXCEPT ![c] = "producers"]
    /\ UNCHANGED <<execVars, output_topics, producers_made, launches, setup_raised,
                   exit_status, storeVars, histVars, topicVars, cmVars, now, userVars,
                   pc, will_stop, rpc_lock, queueVars, curVars, envVars, obsVars,
                   suicide_called>>

\* _setup_kafka_producers
StartProducers(c) ==
    /\ start_pc[c] = "producers"
    /\ producers_made' = producers_made + 1
    /\ start_pc' = [start_pc EXCEPT ![c] = "setup"]
    /\ UNCHANGED <<execVars, output_topics, launched, launches, setup_raised,
                   exit_status, storeVars, histVars, topicVars, cmVars, now, userVars,
                   pc, will_stop, rpc_lock, queueVars, curVars, envVars, obsVars,
                   suicide_called>>

\* self.setup() returns or raises; when it raises suicide is called, which
\* raises AttributeError out of start() if self._producer_thread does not
\* exist yet, and returns otherwise: start() then goes on to _launch_threads
StartSetup(c) ==
    /\ start_pc[c] = "setup"
    /\ \E setup_raises \in BOOLEAN :
         IF ~setup_raises
         THEN /\ start_pc' = [start_pc EXCEPT ![c] = "launch"]
              /\ UNCHANGED <<setup_raised, will_stop, suicide_called, exit_status>>
         ELSE /\ setup_raised' = setup_raised \cup {c}
              /\ IF ThreadsExist
                 THEN /\ will_stop' = SuicideFlags
                      /\ suicide_called' = TRUE
                      /\ start_pc' = [start_pc EXCEPT ![c] = "launch"]
                      /\ UNCHANGED exit_status
                 ELSE /\ start_pc' = [start_pc EXCEPT ![c] = "crashed"]
                      /\ exit_status' = IF c = "main" THEN "1" ELSE exit_status
                      /\ UNCHANGED <<will_stop, suicide_called>>
    /\ UNCHANGED <<execVars, output_topics, launched, producers_made, launches,
                   storeVars, histVars, topicVars, cmVars, now, userVars, pc, rpc_lock,
                   queueVars, curVars, envVars, obsVars>>

\* _launch_threads and _setup_signal_handlers: new thread objects, bound to
\* the link's attributes, are started
StartLaunch(c) ==
    /\ start_pc[c] = "launch"
    /\ launches' = launches + 1
    /\ pc' = [t \in Threads |-> InitialPc(t)]
    /\ will_stop' = [t \in Threads |-> FALSE]
    /\ input_topic_assignments' =
           IF AssignmentsRaise(input_topics, input_mode) THEN input_topic_assignments
           ELSE SetInputTopicAssignments(input_topics, input_mode)
    /\ start_pc' = [start_pc EXCEPT ![c] = "joining"]
    /\ UNCHANGED <<execVars, output_topics, launched, producers_made, setup_raised,
                   exit_status, storeVars, histVars, input_topics, changed_input_topics,
                   cmVars, now, userVars, rpc_lock, queueVars, curVars, envVars, obsVars,
                   suicide_called>>

\* every join has returned: _exit(0)
StartJoin(c) ==
    /\ start_pc[c] = "joining"
    /\ \A t \in Launched : pc[t] = "done"
    /\ start_pc' = [start_pc EXCEPT ![c] = "exited"]
    /\ exit_status' = "0"
    /\ UNCHANGED <<execVars, output_topics, launched, producers_made, launches,
                   setup_raised, storeVars, histVars, topicVars, cmVars, now, userVars,
                   pc, will_stop, rpc_lock, queueVars, curVars, envVars, obsVars,
                   suicide_called>>

\* ------------------------------------------------------------------------
\* _thread_target: an exception that escapes an engine thread's target calls
\* suicide and ends the thread
\* ------------------------------------------------------------------------
ThreadTargetExcept(t) ==
    /\ pc' = [pc EXCEPT ![t] = "done"]
    /\ will_stop' = SuicideFlags
    /\ suicide_called' = TRUE

\* ------------------------------------------------------------------------
\* _kafka_consumer_main
\* ------------------------------------------------------------------------
\* the handle a message was consumed with, and so the one its commit
\* callback was given
HandleOf(msg) == IF msg[1] \in Topics THEN "main" ELSE "rpc"

\* consumer_ops after thread t has called op on a handle
Used(handle, op, t) == consumer_ops \cup {[handle |-> handle, op |-> op, thread |-> t]}

\* consumer_ops after thread t has executed callbacks: a commit callback
\* calls consumer.commit in _commit_kafka_message
UsedByCallbacks(cbs, t) ==
    consumer_ops \cup {[handle |-> HandleOf(cbs[i].msg), op |-> "commit", thread |-> t] :
                          i \in {j \in 1..Len(cbs) : cbs[j].name = "commit"}}

\* while not self._consumer_main_thread.will_stop
ConsumerMainLoop ==
    /\ pc["consumer_main"] = "loop"
    /\ pc' = [pc EXCEPT !["consumer_main"] =
                 IF will_stop["consumer_main"] THEN "done" ELSE "wait_topics"]
    /\ UNCHANGED <<cfgVars, topicVars, cmVars, now, userVars, will_stop, rpc_lock,
                   queueVars, curVars, envVars, obsVars, suicide_called>>

\* while not self._input_topics: sleep(NO_INPUT_TOPIC_TIMEOUT); the stop flag
\* is not read in this loop
ConsumerMainWaitTopics ==
    /\ pc["consumer_main"] = "wait_topics"
    /\ pc' = [pc EXCEPT !["consumer_main"] =
                 IF input_topics = <<>> THEN "wait_topics" ELSE "assign"]
    /\ UNCHANGED <<cfgVars, topicVars, cmVars, now, userVars, will_stop, rpc_lock,
                   queueVars, curVars, envVars, obsVars, suicide_called>>

\* self._set_input_topic_assignments(), outside the lock and outside the try
ConsumerMainAssign ==
    /\ pc["consumer_main"] = "assign"
    /\ IF AssignmentsRaise(input_topics, input_mode)
       THEN /\ ThreadTargetExcept("consumer_main")
            /\ UNCHANGED input_topic_assignments
       ELSE /\ input_topic_assignments' = SetInputTopicAssignments(input_topics, input_mode)
            /\ pc' = [pc EXCEPT !["consumer_main"] = "snapshot"]
            /\ UNCHANGED <<will_stop, suicide_called>>
    /\ UNCHANGED <<cfgVars, input_topics, changed_input_topics, cmVars, now, userVars,
                   rpc_lock, queueVars, curVars, envVars, obsVars>>

\* current_input_topic_assignments = dict(self._input_topic_assignments)
ConsumerMainSnapshot ==
    /\ pc["consumer_main"] = "snapshot"
    /\ cm_assign' = input_topic_assignments
    /\ cm_todo' = input_topic_assignments
    /\ pc' = [pc EXCEPT !["consumer_main"] = "for"]
    /\ UNCHANGED <<cfgVars, topicVars, subscription, start_time, assigned_time,
                   consumer_closed, now, userVars, will_stop, rpc_lock, queueVars,
                   curVars, envVars, obsVars, suicide_called>>

\* the subscription of one iteration of the for loop
SubscriptionFor(topic) == IF input_mode = "exp" THEN <<topic>> ELSE input_topics

\* one iteration head of `for topic in current_input_topic_assignments`: the
\* test-and-reset of the changed flag under the lock, then subscribe and
\* start_time = get_timestamp_ms(). Only differences of timestamps are read,
\* so the clock's origin is moved to the start of the slice.
ConsumerMainFor ==
    /\ pc["consumer_main"] = "for"
    /\ IF cm_todo = <<>>
       THEN /\ pc' = [pc EXCEPT !["consumer_main"] = "loop"]
            /\ UNCHANGED <<changed_input_topics, cmVars, now, will_stop, suicide_called>>
       ELSE IF changed_input_topics
       THEN /\ changed_input_topics' = FALSE
            /\ pc' = [pc EXCEPT !["consumer_main"] = "loop"]
            /\ UNCHANGED <<cmVars, now, will_stop, suicide_called>>
       ELSE IF consumer_closed
       THEN \* subscribe on a closed consumer raises outside the try
            /\ ThreadTargetExcept("consumer_main")
            /\ UNCHANGED <<changed_input_topics, cmVars, now>>
       ELSE /\ subscription' = SubscriptionFor(Head(cm_todo).topic)
            /\ now' = 0
            /\ start_time' = 0
            /\ assigned_time' = Head(cm_todo).budget
            /\ cm_todo' = Tail(cm_todo)
            /\ pc' = [pc EXCEPT !["consumer_main"] = "poll"]
            /\ UNCHANGED <<changed_input_topics, cm_assign, consumer_closed, will_stop,
                           suicide_called>>
    /\ consumer_ops' = IF cm_todo # <<>> /\ ~changed_input_topics
                       THEN Used("main", "subscribe", "consumer_main")
                       ELSE consumer_ops
    /\ UNCHANGED <<confVars, linkVars, histVars, input_topics, input_topic_assignments, userVars,
                   rpc_lock, queueVars, curVars, envVars, obsVars>>

\* the condition of the inner while
SliceGoesOn ==
    /\ assigned_time = -1 \/ InTime(start_time, assigned_time)
    /\ ~will_stop["consumer_main"]

\* topics of the subscription that still have a message for the consumer
Available(sub) == {tp \in Range(sub) : tp \in Topics /\ bus_in[tp] < MaxMsgs}

\* MainQueueItem had the tuple with the commit callback been put in every
\* mode
MainQueueItemWithCommit(tp) ==
    [topic |-> tp, offset |-> bus_in[tp] + 1, commit |-> TRUE, method |-> "none"]

\* what the work queue gets for a polled message: a tuple with the commit
\* callback's target and arguments in synchronous mode, the bare message
\* otherwise
MainQueueItem(tp) ==
    [topic |-> tp, offset |-> bus_in[tp] + 1, commit |-> synchronous, method |-> "none"]

\* one pass of the inner while: its condition, the flag test under the lock,
\* the poll and what is done with its result
ConsumerMainPoll ==
    /\ pc["consumer_main"] = "poll"
    /\ \E outcome \in {"none", "error"} \cup Available(subscription) :
         IF ~SliceGoesOn \/ changed_input_topics
         THEN \* the slice is over, or break: the flag is reset in the for loop
              /\ pc' = [pc EXCEPT !["consumer_main"] = "for"]
              /\ UNCHANGED <<input_messages, bus_in>>
         ELSE IF outcome = "none"
         THEN /\ pc' = [pc EXCEPT !["consumer_main"] =
                           IF BreakConsumerLoop(subscription) THEN "for" ELSE "poll"]
              /\ UNCHANGED <<input_messages, bus_in>>
         ELSE IF outcome = "error"
         THEN UNCHANGED <<pc, input_messages, bus_in>>
         ELSE \* a message: len(subscription) == 1 in exp mode, so the
              \* penalization branch below line 849 is never reached
              /\ input_messages' = Append(input_messages, MainQueueItem(outcome))
              /\ bus_in' = [bus_in EXCEPT ![outcome] = @ + 1]
              /\ UNCHANGED pc
    /\ consumer_ops' = IF SliceGoesOn /\ ~changed_input_topics
                       THEN Used("main", "poll", "consumer_main")
                       ELSE consumer_ops
    /\ UNCHANGED <<confVars, linkVars, histVars, topicVars, cmVars, now, userVars, will_stop, rpc_lock,
                   tasks_main, tasks_rpc, output_messages, curVars, rpc_polled,
                   direct_polled, gen_sent, obsVars, suicide_called>>

\* the poll raises: consumer.close(), suicide, and the for loop goes on
ConsumerMainPollRaises ==
    /\ pc["consumer_main"] = "poll"
    /\ SliceGoesOn
    /\ ~changed_input_topics
    /\ consumer_closed' = TRUE
    /\ will_stop' = SuicideFlags
    /\ suicide_called' = TRUE
    /\ pc' = [pc EXCEPT !["consumer_main"] = "for"]
    /\ consumer_ops' = Used("main", "poll", "consumer_main")
                          \cup Used("main", "close", "consumer_main")
    /\ UNCHANGED <<confVars, linkVars, histVars, topicVars, cm_assign, cm_todo, subscription, start_time,
                   assigned_time, now, userVars, rpc_lock, queueVars, curVars, envVars,
                   obsVars>>

ConsumerMainStep ==
    \/ ConsumerMainLoop
    \/ ConsumerMainWaitTopics
    \/ ConsumerMainAssign
    \/ ConsumerMainSnapshot
    \/ ConsumerMainFor
    \/ ConsumerMainPoll

\* ------------------------------------------------------------------------
\* add_input_topic / remove_input_topic, called by user code
\* ------------------------------------------------------------------------
RemoveTopic(topics, tp) == SelectSeq(topics, LAMBDA x : x # tp)

\* the list is changed before the lock is taken
AddInputTopicAppend(tp) ==
    /\ user_pc = "idle"
    /\ user_ops < MaxOps
    /\ pc["start"] = "joining"
    /\ IF tp \notin Range(input_topics)
       THEN /\ input_topics' = Append(input_topics, tp)
            /\ user_ops' = user_ops + 1
            /\ user_pc' = "flag"
            /\ user_call' = "add"
            /\ user_arg' = tp
       ELSE UNCHANGED <<input_topics, user_pc, user_call, user_arg, user_ops>>
    /\ UNCHANGED <<cfgVars, changed_input_topics, input_topic_assignments, cmVars, now,
                   pc, will_stop, rpc_lock, queueVars, curVars, envVars, obsVars,
                   suicide_called>>

RemoveInputTopicRemove(tp) ==
    /\ user_pc = "idle"
    /\ user_ops < MaxOps
    /\ pc["start"] = "joining"
    /\ IF tp \in Range(input_topics)
       THEN /\ input_topics' = RemoveTopic(input_topics, tp)
            /\ user_ops' = user_ops + 1
            /\ user_pc' = "flag"
            /\ user_call' = "remove"
            /\ user_arg' = tp
       ELSE UNCHANGED <<input_topics, user_pc, user_call, user_arg, user_ops>>
    /\ UNCHANGED <<cfgVars, changed_input_topics, input_topic_assignments, cmVars, now,
                   pc, will_stop, rpc_lock, queueVars, curVars, envVars, obsVars,
                   suicide_called>>

\* SetChangedFlag without `self._changed_input_topics = True`
SetChangedFlagForgotten ==
    /\ user_pc = "flag"
    /\ IF AssignmentsRaise(input_topics, input_mode)
       THEN /\ user_pc' = "raised"
            /\ UNCHANGED input_topic_assignments
       ELSE /\ user_pc' = "idle"
            /\ input_topic_assignments' =
                   IF input_mode = "exp"
                   THEN SetInputTopicAssignments(input_topics, input_mode)
                   ELSE input_topic_assignments
    /\ UNCHANGED <<cfgVars, input_topics, changed_input_topics, cmVars, now, user_call,
                   user_arg, user_ops, pc, will_stop, rpc_lock, queueVars, curVars,
                   envVars, obsVars, suicide_called>>

\* with self._input_topics_lock: the assignments in exp mode, then the flag;
\* when _set_input_topic_assignments raises, the call ends with the flag as
\* it was
SetChangedFlag ==
    /\ user_pc = "flag"
    /\ IF AssignmentsRaise(input_topics, input_mode)
       THEN /\ user_pc' = "raised"
            /\ UNCHANGED <<changed_input_topics, input_topic_assignments>>
       ELSE /\ user_pc' = "idle"
            /\ changed_input_topics' = TRUE
            /\ input_topic_assignments' =
                   IF input_mode = "exp"
                   THEN SetInputTopicAssignments(input_topics, input_mode)
                   ELSE input_topic_assignments
    /\ UNCHANGED <<cfgVars, input_topics, cmVars, now, user_call, user_arg, user_ops, pc,
                   will_stop, rpc_lock, queueVars, curVars, envVars, obsVars,
                   suicide_called>>

\* the caller of a call that raised goes on
UserResume ==
    /\ user_pc = "raised"
    /\ user_pc' = "idle"
    /\ user_call' = "none"
    /\ UNCHANGED <<cfgVars, topicVars, cmVars, now, user_arg, user_ops, pc, will_stop,
                   rpc_lock, queueVars, curVars, envVars, obsVars, suicide_called>>

\* utils.get_timestamp_ms advances
Tick ==
    /\ now < MaxTime
    /\ now' = now + 1
    /\ UNCHANGED <<cfgVars, topicVars, cmVars, userVars, pc, will_stop, rpc_lock,
                   queueVars, curVars, envVars, obsVars, suicide_called>>

\* ------------------------------------------------------------------------
\* The main consumer with the user's topic calls: the other engines idle
\* ------------------------------------------------------------------------
\* the consumer group has committed all but the last message of each topic
InitTopics ==
    \E mode \in {"parity", "exp"}, topics \in {<<>>, <<"t1">>, <<"t1", "t2">>} :
        InitWith(SetExecutionOpts(FALSE, FALSE, 1, 1), mode, topics, <<"out1">>, MaxMsgs - 1,
                 MaxRpc, MaxDirect, MaxSend)

NextTopics ==
    \/ Start
    \/ ConsumerMainStep
    \/ ConsumerMainPollRaises
    \/ \E tp \in Topics : AddInputTopicAppend(tp)
    \/ \E tp \in Topics : RemoveInputTopicRemove(tp)
    \/ SetChangedFlag
    \/ UserResume
    \/ Tick
    \/ Signal("SIGTERM")

SpecTopics == InitTopics /\ [][NextTopics]_vars

\* every thread that can take a step eventually takes one, a call in
\* progress returns, and time passes
FairTopics ==
    /\ SpecTopics
    /\ WF_vars(Start)
    /\ WF_vars(ConsumerMainStep)
    /\ WF_vars(SetChangedFlag)
    /\ WF_vars(UserResume)
    /\ WF_vars(Tick)

\* ------------------------------------------------------------------------
\* Subscription changes (C5) and weighted arbitration (C6)
\* ------------------------------------------------------------------------
Stopping == will_stop["consumer_main"] \/ pc["consumer_main"] = "done"

\* the topic is in the set the consumer subscribed to (parity) or in the
\* slice schedule it is going through (exp)
InSchedule(tp) ==
    IF input_mode = "exp"
    THEN \E i \in 1..Len(cm_assign) : cm_assign[i].topic = tp
    ELSE tp \in Range(subscription)

SubscribedWith(tp) == pc["consumer_main"] = "poll" /\ InSchedule(tp)
SubscribedWithout(tp) == pc["consumer_main"] = "poll" /\ ~InSchedule(tp)
AddReturned(tp) == user_pc = "idle" /\ user_call = "add" /\ user_arg = tp
RemoveReturned(tp) == user_pc = "idle" /\ user_call = "remove" /\ user_arg = tp

C6_EveryTopicGetsItsSlice ==
    \A tp \in Topics :
        []<>(\/ ~(input_mode = "exp" /\ Len(input_topics) >= 2
                  /\ tp \in Range(input_topics) /\ pc["start"] = "joining")
             \/ Stopping
             \/ (pc["consumer_main"] = "poll" /\ subscription = <<tp>>))

\* the consumer is in the inner loop of a slice that has a budget
InTimedSlice ==
    pc["consumer_main"] = "poll" /\ input_mode = "exp" /\ assigned_time # -1

\* milliseconds since the slice began, and its budget, which
\* _get_index_assignment gives in seconds
Elapsed == GetTimestampMs - start_time
BudgetMs == assigned_time * 1000

\* C27: in weighted mode in_time(start, budget) is true only while less than
\* the budget has elapsed since the slice began, so that the inner loop of a
\* slice is left at the first pass made after the budget has elapsed.
C27_SliceEndsByTime ==
    /\ [](InTimedSlice => (InTime(start_time, assigned_time) => Elapsed < BudgetMs))
    /\ [][(InTimedSlice /\ Elapsed >= BudgetMs /\ ConsumerMainPoll)
              => pc'["consumer_main"] # "poll"]_vars

\* ------------------------------------------------------------------------
\* _kafka_consumer_rpc
\* ------------------------------------------------------------------------
RpcTopics == <<"catenae_rpc_uid", "catenae_rpc_group", "catenae_rpc_broadcast">>

\* what the work queue gets for a polled RPC message: always the tuple with
\* the commit callback's target and arguments
RpcQueueItem(method) ==
    [topic |-> RpcTopic, offset |-> rpc_polled + 1, commit |-> TRUE, method |-> method]

\* one pass of `while not self._consumer_rpc_thread.will_stop`
ConsumerRpcPoll ==
    /\ pc["consumer_rpc"] = "loop"
    /\ \E outcome \in {"none", "error"}
                      \cup (IF rpc_polled < MaxRpc THEN {"known", "unknown"} ELSE {}) :
         IF will_stop["consumer_rpc"]
         THEN /\ pc' = [pc EXCEPT !["consumer_rpc"] = "done"]
              /\ UNCHANGED <<input_messages, rpc_polled>>
         ELSE IF outcome = "none"
         THEN /\ pc' = [pc EXCEPT !["consumer_rpc"] =
                           IF BreakConsumerLoop(RpcTopics) THEN "done" ELSE "loop"]
              /\ UNCHANGED <<input_messages, rpc_polled>>
         ELSE IF outcome = "error"
         THEN UNCHANGED <<pc, input_messages, rpc_polled>>
         ELSE /\ input_messages' = Append(input_messages, RpcQueueItem(outcome))
              /\ rpc_polled' = rpc_polled + 1
              /\ UNCHANGED pc
    /\ consumer_ops' = IF will_stop["consumer_rpc"] THEN consumer_ops
                       ELSE Used("rpc", "subscribe", "consumer_rpc")
                                \cup Used("rpc", "poll", "consumer_rpc")
    /\ UNCHANGED <<confVars, linkVars, histVars, topicVars, cmVars, now, userVars, will_stop, rpc_lock,
                   tasks_main, tasks_rpc, output_messages, curVars, bus_in,
                   direct_polled, gen_sent, obsVars, suicide_called>>

\* the poll raises: consumer.close(), suicide; the while loop then ends
ConsumerRpcPollRaises ==
    /\ pc["consumer_rpc"] = "loop"
    /\ ~will_stop["consumer_rpc"]
    /\ will_stop' = SuicideFlags
    /\ suicide_called' = TRUE
    /\ consumer_ops' = Used("rpc", "poll", "consumer_rpc")
                          \cup Used("rpc", "close", "consumer_rpc")
    /\ UNCHANGED <<confVars, linkVars, histVars, topicVars, cmVars, now, userVars, pc, rpc_lock, queueVars,
                   curVars, envVars, obsVars>>

\* ------------------------------------------------------------------------
\* _input_handler, the dispatcher
\* ------------------------------------------------------------------------
\* while not self._input_handler_thread.will_stop
InputHandlerLoop ==
    /\ pc["input_handler"] = "loop"
    /\ pc' = [pc EXCEPT !["input_handler"] =
                 IF will_stop["input_handler"] THEN "done" ELSE "get"]
    /\ UNCHANGED <<cfgVars, topicVars, cmVars, now, userVars, will_stop, rpc_lock,
                   queueVars, curVars, envVars, obsVars, suicide_called>>

\* queue_item = self._input_messages.get() with an item there; then the
\* item is decoded and submitted to the RPC pool or to the main pool
InputHandlerGet ==
    /\ pc["input_handler"] = "get"
    /\ input_messages # <<>>
    /\ input_messages' = Tail(input_messages)
    /\ IF Head(input_messages).topic = RpcTopic
       THEN /\ tasks_rpc' = Append(tasks_rpc, Head(input_messages))
            /\ UNCHANGED tasks_main
       ELSE /\ tasks_main' = Append(tasks_main, Head(input_messages))
            /\ UNCHANGED tasks_rpc
    /\ pc' = [pc EXCEPT !["input_handler"] = "loop"]
    /\ UNCHANGED <<cfgVars, topicVars, cmVars, now, userVars, will_stop, rpc_lock,
                   output_messages, curVars, envVars, obsVars, suicide_called>>

\* LinkQueue.get on an empty queue: the wait ends with nothing to hand over
\* and the dispatcher is back at the head of its loop
InputHandlerGetEmpty ==
    /\ pc["input_handler"] = "get"
    /\ input_messages = <<>>
    /\ pc' = [pc EXCEPT !["input_handler"] = "loop"]
    /\ UNCHANGED <<cfgVars, topicVars, cmVars, now, userVars, will_stop, rpc_lock,
                   queueVars, curVars, envVars, obsVars, suicide_called>>

\* ------------------------------------------------------------------------
\* The pools' workers
\* ------------------------------------------------------------------------
\* a worker whose stop flag is raised ends
PoolWorkerStop(w) ==
    /\ w \in Workers
    /\ pc[w] = "idle"
    /\ will_stop[w]
    /\ pc' = [pc EXCEPT ![w] = "done"]
    /\ UNCHANGED <<cfgVars, topicVars, cmVars, now, userVars, will_stop, rpc_lock,
                   queueVars, curVars, envVars, obsVars, suicide_called>>

\* a main worker takes a _transform task
MainWorkerTake(w) ==
    /\ w \in MainWorkers
    /\ pc[w] = "idle"
    /\ ~will_stop[w]
    /\ tasks_main # <<>>
    /\ tasks_main' = Tail(tasks_main)
    /\ work_cur' = [work_cur EXCEPT ![w] = [task |-> Head(tasks_main), n |-> 0, ucb |-> FALSE,
                                            same |-> FALSE]]
    /\ pc' = [pc EXCEPT ![w] = "acquire"]
    /\ UNCHANGED <<cfgVars, topicVars, cmVars, now, userVars, will_stop, rpc_lock,
                   input_messages, tasks_rpc, output_messages, prod_cur, mon_cur,
                   envVars, obsVars, suicide_called>>

\* _rpc_enabled_methods, filled by the @rpc decorator
Registry == {"known"}

\* RpcEnabledMethod had every method name been let through
RpcEnabledMethodAny(method) == TRUE

\* _rpc_enabled_method
RpcEnabledMethod(method) == method \in Registry

\* StopAfterHandler had a handler's exception been fatal like a transform's
StopAfterHandlerFatal(handler_raises) == IF handler_raises THEN SuicideFlags ELSE will_stop

\* an exception of an RPC handler is logged (bus) or turned into
\* InternalError (direct): no stop flag changes
StopAfterHandler(handler_raises) == will_stop

\* an RPC worker takes a _kafka_rpc_call task; a method that is not enabled
\* ends the call at once
RpcWorkerTake(w) ==
    /\ w \in RpcWorkers
    /\ pc[w] = "idle"
    /\ ~will_stop[w]
    /\ tasks_rpc # <<>>
    /\ tasks_rpc' = Tail(tasks_rpc)
    /\ received' = Append(received, [path |-> "bus", id |-> Head(tasks_rpc).offset,
                                     method |-> Head(tasks_rpc).method,
                                     is_notification |-> FALSE])
    /\ IF RpcEnabledMethod(Head(tasks_rpc).method)
       THEN /\ work_cur' = [work_cur EXCEPT ![w] =
                               [task |-> Head(tasks_rpc), n |-> 0, ucb |-> FALSE,
                                same |-> FALSE]]
            /\ pc' = [pc EXCEPT ![w] = "acquire"]
       ELSE UNCHANGED <<work_cur, pc>>
    /\ UNCHANGED <<execVars, linkVars, produced, invoked, topicVars, cmVars, now, userVars, will_stop, rpc_lock,
                   input_messages, tasks_main, output_messages, prod_cur, mon_cur,
                   envVars, obsVars, suicide_called>>

\* self._rpc_lock.acquire() in _transform and in _kafka_rpc_call
WorkerAcquire(w) ==
    /\ w \in Workers
    /\ pc[w] = "acquire"
    /\ CanAcquire(w)
    /\ rpc_lock' = w
    /\ pc' = [pc EXCEPT ![w] = IF w \in MainWorkers THEN "transform" ELSE "handler"]
    /\ UNCHANGED <<cfgVars, topicVars, cmVars, now, userVars, will_stop, queueVars,
                   curVars, envVars, obsVars, suicide_called>>

\* ------------------------------------------------------------------------
\* _transform
\* ------------------------------------------------------------------------
MsgOf(task) == <<task.topic, task.offset>>

\* LastCallbacks with the two appends swapped: the transform callback, then
\* the commit callback
LastCallbacksUserFirst(task, ucb) ==
    (IF ucb THEN <<UserCallback(task)>> ELSE <<>>)
        \o (IF task.commit THEN <<CommitCallback(task)>> ELSE <<>>)

\* the callbacks attached to the last electron: the commit callback, then the
\* transform callback, each if it has a target
LastCallbacks(task, ucb) ==
    (IF task.commit THEN <<CommitCallback(task)>> ELSE <<>>)
        \o (IF ucb THEN <<UserCallback(task)>> ELSE <<>>)

\* the electrons of one invocation, the last one carrying the callbacks
Electrons(task, n, ucb) ==
    [i \in 1..n |->
        [src |-> MsgOf(task), idx |-> i,
         callbacks |-> IF i = n THEN LastCallbacks(task, ucb) ELSE <<>>,
         topic |-> NoTopic, key |-> NoKey]]

\* the list of one invocation when it is n times the same Electron object:
\* electrons[-1] is every item of it, and its callbacks are theirs
SameElectron(task, n, ucb) ==
    [i \in 1..n |->
        [src |-> MsgOf(task), idx |-> i, callbacks |-> LastCallbacks(task, ucb),
         topic |-> NoTopic, key |-> NoKey]]

\* what _transform puts on _output_messages for a result
ElectronsOf(cur) ==
    IF cur.same THEN SameElectron(cur.task, cur.n, cur.ucb)
    ELSE Electrons(cur.task, cur.n, cur.ucb)

\* TransformResultBound had transform_result been given a value before the
\* try statement
TransformResultAlwaysBound(has_raised) == TRUE

\* transform_result is assigned only when self.transform returned
TransformResultBound(has_raised) == ~has_raised

\* self.transform returns n electrons, alone or in a tuple with a callback
\* target; the lock is released in the finally clause
TransformReturns(w) ==
    /\ w \in MainWorkers
    /\ pc[w] = "transform"
    /\ \E n \in 0..MaxOut, ucb \in BOOLEAN :
         /\ work_cur' = [work_cur EXCEPT ![w] = [task |-> @.task, n |-> n, ucb |-> ucb,
                                                  same |-> FALSE]]
         /\ emitted' = emitted \cup {[msg |-> MsgOf(work_cur[w].task), n |-> n,
                                     ucb |-> ucb]}
    /\ rpc_lock' = NoHolder
    /\ pc' = [pc EXCEPT ![w] = "post"]
    /\ UNCHANGED <<cfgVars, topicVars, cmVars, now, userVars, will_stop, queueVars,
                   prod_cur, mon_cur, envVars, bus_out, fired, raised, produce_failed,
                   sig_received, replies, suicide_called>>

\* self.transform returns a list that holds one Electron object MaxOut
\* times, alone or in a tuple with a callback target
TransformReturnsSameElectron(w) ==
    /\ w \in MainWorkers
    /\ pc[w] = "transform"
    /\ \E ucb \in BOOLEAN :
         /\ work_cur' = [work_cur EXCEPT ![w] = [task |-> @.task, n |-> MaxOut, ucb |-> ucb,
                                                  same |-> TRUE]]
         /\ emitted' = emitted \cup {[msg |-> MsgOf(work_cur[w].task), n |-> MaxOut,
                                     ucb |-> ucb]}
    /\ rpc_lock' = NoHolder
    /\ pc' = [pc EXCEPT ![w] = "post"]
    /\ UNCHANGED <<cfgVars, topicVars, cmVars, now, userVars, will_stop, queueVars,
                   prod_cur, mon_cur, envVars, bus_out, fired, raised, produce_failed,
                   sig_received, replies, suicide_called>>

\* self.transform raises: suicide, the lock is released, and the read of
\* transform_result that follows raises in its turn, which ends the task
TransformRaises(w) ==
    /\ w \in MainWorkers
    /\ pc[w] = "transform"
    /\ will_stop' = SuicideFlags
    /\ suicide_called' = TRUE
    /\ raised' = raised \cup {[msg |-> MsgOf(work_cur[w].task), worker |-> w]}
    /\ rpc_lock' = NoHolder
    /\ IF TransformResultBound(TRUE)
       THEN /\ pc' = [pc EXCEPT ![w] = "post"]
            /\ UNCHANGED work_cur
       ELSE /\ pc' = [pc EXCEPT ![w] = "idle"]
            /\ work_cur' = [work_cur EXCEPT ![w] = NoWork]
    /\ UNCHANGED <<cfgVars, topicVars, cmVars, now, userVars, queueVars, prod_cur,
                   mon_cur, envVars, bus_out, fired, emitted, produce_failed,
                   sig_received, replies>>

\* the rest of _transform: the electrons are put on _output_messages, or,
\* with none of them, the commit callback is executed in synchronous mode
TransformPost(w) ==
    /\ w \in MainWorkers
    /\ pc[w] = "post"
    /\ LET cur == work_cur[w]
       IN IF cur.n > 0
          THEN /\ output_messages' = output_messages \o ElectronsOf(cur)
               /\ UNCHANGED <<fired, consumer_ops>>
          ELSE /\ fired' = IF synchronous /\ cur.task.commit
                           THEN Append(fired, CommitCallback(cur.task))
                           ELSE fired
               /\ consumer_ops' = IF synchronous /\ cur.task.commit
                                   THEN UsedByCallbacks(<<CommitCallback(cur.task)>>, w)
                                   ELSE consumer_ops
               /\ UNCHANGED output_messages
    /\ work_cur' = [work_cur EXCEPT ![w] = NoWork]
    /\ pc' = [pc EXCEPT ![w] = "idle"]
    /\ UNCHANGED <<confVars, linkVars, histVars, topicVars, cmVars, now, userVars, will_stop, rpc_lock,
                   input_messages, tasks_main, tasks_rpc, prod_cur, mon_cur, envVars,
                   bus_out, emitted, raised, produce_failed, sig_received, replies,
                   suicide_called>>

\* ------------------------------------------------------------------------
\* _kafka_rpc_call
\* ------------------------------------------------------------------------
\* consumer.close() has been called on the RPC consumer's handle
RpcConsumerClosed ==
    [handle |-> "rpc", op |-> "close", thread |-> "consumer_rpc"] \in consumer_ops

\* consumer.commit raises on a handle that has been closed
CommitRaises(msg) == HandleOf(msg) = "rpc" /\ RpcConsumerClosed

\* the handler returns or raises (the exception is logged); in the finally
\* clause the commit callback is executed in synchronous mode and the lock
\* is released once it has returned; a commit that raises is retried in
\* _commit_kafka_message with the lock held
RpcHandlerEnds(w) ==
    /\ w \in RpcWorkers
    /\ pc[w] = "handler"
    /\ \E handler_raises \in BOOLEAN :
         /\ invoked' = Append(invoked, [path |-> "bus", id |-> work_cur[w].task.offset,
                                        method |-> work_cur[w].task.method,
                                        raised |-> handler_raises])
         /\ will_stop' = StopAfterHandler(handler_raises)
    /\ consumer_ops' = IF synchronous
                       THEN UsedByCallbacks(<<CommitCallback(work_cur[w].task)>>, w)
                       ELSE consumer_ops
    /\ IF synchronous /\ CommitRaises(MsgOf(work_cur[w].task))
       THEN /\ pc' = [pc EXCEPT ![w] = "commit_while"]
            /\ UNCHANGED <<fired, rpc_lock, work_cur>>
       ELSE /\ fired' = IF synchronous THEN Append(fired, CommitCallback(work_cur[w].task))
                        ELSE fired
            /\ rpc_lock' = NoHolder
            /\ work_cur' = [work_cur EXCEPT ![w] = NoWork]
            /\ pc' = [pc EXCEPT ![w] = "idle"]
    /\ UNCHANGED <<confVars, linkVars, produced, received, topicVars, cmVars, now,
                   userVars, queueVars, prod_cur, mon_cur, envVars, bus_out, emitted,
                   raised, produce_failed, sig_received, replies, suicide_called>>

\* `while not commited` of _commit_kafka_message, called from the finally
\* clause after a commit that raised
RpcCommitWhile(w) ==
    /\ w \in RpcWorkers
    /\ pc[w] = "commit_while"
    /\ pc' = [pc EXCEPT ![w] = "commit_try"]
    /\ UNCHANGED <<cfgVars, topicVars, cmVars, now, userVars, will_stop, rpc_lock,
                   queueVars, curVars, envVars, obsVars, suicide_called>>

\* consumer.commit again: `continue` when it raises; otherwise the callback
\* returns and the finally clause releases the lock
RpcCommitTry(w) ==
    /\ w \in RpcWorkers
    /\ pc[w] = "commit_try"
    /\ IF CommitRaises(MsgOf(work_cur[w].task))
       THEN /\ pc' = [pc EXCEPT ![w] = "commit_while"]
            /\ UNCHANGED <<fired, rpc_lock, work_cur>>
       ELSE /\ fired' = Append(fired, CommitCallback(work_cur[w].task))
            /\ rpc_lock' = NoHolder
            /\ work_cur' = [work_cur EXCEPT ![w] = NoWork]
            /\ pc' = [pc EXCEPT ![w] = "idle"]
    /\ UNCHANGED <<cfgVars, topicVars, cmVars, now, userVars, will_stop, queueVars,
                   prod_cur, mon_cur, envVars, bus_out, emitted, raised, produce_failed,
                   sig_received, replies, suicide_called>>

\* ------------------------------------------------------------------------
\* _produce and _kafka_producer
\* ------------------------------------------------------------------------
\* producer.produce and flush/poll went through: the electron is on the bus
PublishedAfter(e, ok) == IF ok THEN Append(bus_out, <<e.src, e.idx>>) ELSE bus_out

\* CallbacksRun had _produce left the callbacks alone
CallbacksRunNever(e, syn, ok) == <<>>

\* `if synchronous: for callback in electron.callbacks: callback.execute()`,
\* reached after the try statement whether or not it went through the
\* except clause
CallbacksRun(e, syn, ok) == IF syn THEN e.callbacks ELSE <<>>

\* StopAfterProduce had the except clause only logged the error
StopAfterProduceOnlyLogs(ok) == will_stop

\* the except clause of _produce: suicide
StopAfterProduce(ok) == IF ok THEN will_stop ELSE SuicideFlags

\* str.encode('utf-8') of a string given as its code points (below 65536)
Utf8Char(cp) ==
    IF cp < 128 THEN <<cp>>
    ELSE IF cp < 2048 THEN <<192 + (cp \div 64), 128 + (cp % 64)>>
    ELSE <<224 + (cp \div 4096), 128 + ((cp \div 64) % 64), 128 + (cp % 64)>>

RECURSIVE Utf8(_)
Utf8(str) == IF str = <<>> THEN <<>> ELSE Utf8Char(Head(str)) \o Utf8(Tail(str))

NullKey == [kind |-> "null", val |-> <<>>]

\* `if electron.key:` an empty string counts as no key
KeyIsTruthy(key) == key.type = "obj" \/ (key.type = "str" /\ key.val # <<>>)

\* KeylessPartitionKey had the sequential branch been left out
KeylessPartitionKeyNull(seq) == NullKey

\* `elif self._sequential: partition_key = self._uid.encode('utf-8')`
KeylessPartitionKey(seq) ==
    IF seq THEN [kind |-> "bytes", val |-> Utf8(Uid)] ELSE NullKey

\* the partition key of _produce
PartitionKey(key, seq) ==
    IF KeyIsTruthy(key)
    THEN IF key.type = "str" THEN [kind |-> "bytes", val |-> Utf8(key.val)]
         ELSE [kind |-> "pickle", val |-> key.val]
    ELSE KeylessPartitionKey(seq)

\* `if not electron.topic: if not self._output_topics: suicide`, after which
\* self._output_topics[0] raises
TopicMissing(e) == e.topic = NoTopic /\ output_topics = <<>>

\* TopicFor had the last output topic been the default
TopicForLast(e) == IF e.topic = NoTopic THEN output_topics[Len(output_topics)] ELSE e.topic

\* `electron.topic = self._output_topics[0]` for an electron without topic
TopicFor(e) == IF e.topic = NoTopic THEN output_topics[1] ELSE e.topic

\* what _produce leaves behind when it gets to producer.produce and when it
\* does not
ProduceCall(e) ==
    IF TopicMissing(e)
    THEN [src |-> e.src, etopic |-> e.topic, ekey |-> e.key, handed |-> FALSE,
          topic |-> NoTopic, key |-> NullKey]
    ELSE [src |-> e.src, etopic |-> e.topic, ekey |-> e.key, handed |-> TRUE,
          topic |-> TopicFor(e), key |-> PartitionKey(e.key, sequential)]

\* _produce(electron, synchronous): without a topic to publish to, suicide
\* and an exception to the caller; otherwise producer.produce, which goes
\* through or not
Produce(t, e, syn, ok) ==
    /\ produced' = Append(produced, ProduceCall(e))
    /\ IF TopicMissing(e)
       THEN /\ will_stop' = SuicideFlags
            /\ suicide_called' = TRUE
            /\ UNCHANGED <<bus_out, fired, produce_failed, consumer_ops>>
       ELSE /\ bus_out' = PublishedAfter(e, ok)
            /\ fired' = fired \o CallbacksRun(e, syn, ok)
            /\ consumer_ops' = UsedByCallbacks(CallbacksRun(e, syn, ok), t)
            /\ will_stop' = StopAfterProduce(ok)
            /\ suicide_called' = (suicide_called \/ ~ok)
            /\ produce_failed' = (produce_failed \/ ~ok)

\* one pass of `while not self._producer_thread.will_stop`: the get, which
\* raises EmptyError on an empty queue
ProducerLoop ==
    /\ pc["producer"] = "loop"
    /\ IF will_stop["producer"]
       THEN /\ pc' = [pc EXCEPT !["producer"] = "done"]
            /\ UNCHANGED <<output_messages, prod_cur>>
       ELSE IF output_messages = <<>>
       THEN UNCHANGED <<pc, output_messages, prod_cur>>
       ELSE /\ prod_cur' = Head(output_messages)
            /\ output_messages' = Tail(output_messages)
            /\ pc' = [pc EXCEPT !["producer"] = "produce"]
    /\ UNCHANGED <<cfgVars, topicVars, cmVars, now, userVars, will_stop, rpc_lock,
                   input_messages, tasks_main, tasks_rpc, work_cur, mon_cur, envVars,
                   obsVars, suicide_called>>

\* self._produce(electron); an exception out of it ends the thread in
\* _thread_target
ProducerProduce ==
    /\ pc["producer"] = "produce"
    /\ \E ok \in BOOLEAN : Produce("producer", prod_cur, synchronous, ok)
    /\ prod_cur' = NoElectron
    /\ pc' = [pc EXCEPT !["producer"] = IF TopicMissing(prod_cur) THEN "done" ELSE "loop"]
    /\ UNCHANGED <<confVars, linkVars, invoked, received, topicVars, cmVars, now, userVars, rpc_lock, queueVars,
                   work_cur, mon_cur, envVars, emitted, raised, sig_received, replies>>

\* ------------------------------------------------------------------------
\* generator: user code that calls send with callbacks [A, B, C]
\* ------------------------------------------------------------------------
\* the topics and keys of the electrons the generator sends: no key, the
\* strings "", "k" and "\u00e9\u20ac", an object that is not a string
SendTopics == {NoTopic, "out2"}
SendKeys == {NoKey, [type |-> "str", val |-> <<>>], [type |-> "str", val |-> <<107>>],
             [type |-> "str", val |-> <<233, 8364>>], [type |-> "obj", val |-> <<7>>]}

SentElectron(topic, key) ==
    [src |-> <<"send", gen_sent + 1>>, idx |-> 1,
     callbacks |-> << [name |-> "A", msg |-> <<"send", gen_sent + 1>>],
                      [name |-> "B", msg |-> <<"send", gen_sent + 1>>],
                      [name |-> "C", msg |-> <<"send", gen_sent + 1>>] >>,
     topic |-> topic, key |-> key]

\* send(electron, callbacks=[A, B, C], synchronous=arg): published by the
\* caller when synchronous, put on _output_messages otherwise; an exception
\* out of _produce ends the generator in _thread_target
GeneratorSend ==
    /\ pc["generator"] = "run"
    /\ gen_sent < MaxSend
    /\ gen_sent' = gen_sent + 1
    /\ \E arg \in {"None", "True"}, topic \in SendTopics, key \in SendKeys :
         IF arg = "True" \/ synchronous
         THEN /\ \E ok \in BOOLEAN : Produce("generator", SentElectron(topic, key), TRUE, ok)
              /\ pc' = [pc EXCEPT !["generator"] =
                           IF TopicMissing(SentElectron(topic, key)) THEN "done" ELSE @]
              /\ UNCHANGED output_messages
         ELSE /\ output_messages' = Append(output_messages, SentElectron(topic, key))
              /\ UNCHANGED <<bus_out, fired, will_stop, suicide_called, produce_failed,
                             produced, pc, consumer_ops>>
    /\ UNCHANGED <<confVars, linkVars, invoked, received, topicVars, cmVars, now,
                   userVars, rpc_lock,
                   input_messages, tasks_main, tasks_rpc, curVars, bus_in, rpc_polled,
                   direct_polled, emitted, raised, sig_received, replies>>

\* the generator returns
GeneratorReturn ==
    /\ pc["generator"] = "run"
    /\ pc' = [pc EXCEPT !["generator"] = "done"]
    /\ UNCHANGED <<cfgVars, topicVars, cmVars, now, userVars, will_stop, rpc_lock,
                   queueVars, curVars, envVars, obsVars, suicide_called>>

\* ------------------------------------------------------------------------
\* _rpc_request_monitor
\* ------------------------------------------------------------------------
\* one pass of the while loop up to the acquire: the pipe has a request or
\* the thread sleeps JSONRPC_MONITOR_TIMEOUT
MonitorLoop ==
    /\ pc["monitor"] = "loop"
    /\ \E req \in {NoRequest}
                  \cup (IF direct_polled < MaxDirect
                        THEN [method : {"known", "unknown"}, is_notification : BOOLEAN]
                        ELSE {}) :
         IF will_stop["monitor"]
         THEN /\ pc' = [pc EXCEPT !["monitor"] = "done"]
              /\ UNCHANGED <<mon_cur, direct_polled>>
         ELSE IF req = NoRequest
         THEN UNCHANGED <<pc, mon_cur, direct_polled>>
         ELSE /\ mon_cur' = [method |-> req.method,
                             is_notification |-> req.is_notification,
                             id |-> direct_polled + 1]
              /\ direct_polled' = direct_polled + 1
              /\ pc' = [pc EXCEPT !["monitor"] = "acquire"]
    /\ UNCHANGED <<cfgVars, topicVars, cmVars, now, userVars, will_stop, rpc_lock,
                   queueVars, work_cur, prod_cur, bus_in, rpc_polled, gen_sent, obsVars,
                   suicide_called>>

\* self._rpc_lock.acquire(), then the request is received
MonitorAcquire ==
    /\ pc["monitor"] = "acquire"
    /\ CanAcquire("monitor")
    /\ rpc_lock' = "monitor"
    /\ received' = Append(received, [path |-> "direct", id |-> mon_cur.id,
                                     method |-> mon_cur.method,
                                     is_notification |-> mon_cur.is_notification])
    /\ pc' = [pc EXCEPT !["monitor"] = "call"]
    /\ UNCHANGED <<execVars, linkVars, produced, invoked, topicVars, cmVars, now, userVars, will_stop, queueVars,
                   curVars, envVars, obsVars, suicide_called>>

\* _jsonrpc_call: MethodNotFoundError, the handler's result, or InternalError
ErrorCode(method, handler_raises) ==
    IF ~RpcEnabledMethod(method) THEN "METHOD_NOT_FOUND"
    ELSE IF handler_raises THEN "INTERNAL_ERROR"
    ELSE "None"

\* SendsReply had the monitor answered every request
SendsReplyAlways(is_notification) == TRUE

\* `if not is_notification: self._jsonrpc_conn1.send((error_code, result))`
SendsReply(is_notification) == ~is_notification

\* the call ends (the method is invoked only when it is enabled), the lock
\* is released, the reply is sent unless the request is a notification
MonitorCall ==
    /\ pc["monitor"] = "call"
    /\ \E handler_raises \in BOOLEAN :
         /\ replies' = IF SendsReply(mon_cur.is_notification)
                       THEN Append(replies,
                                   [id |-> mon_cur.id,
                                    error_code |-> ErrorCode(mon_cur.method, handler_raises)])
                       ELSE replies
         /\ invoked' = IF RpcEnabledMethod(mon_cur.method)
                       THEN Append(invoked, [path |-> "direct", id |-> mon_cur.id,
                                             method |-> mon_cur.method,
                                             raised |-> handler_raises])
                       ELSE invoked
         /\ will_stop' = StopAfterHandler(RpcEnabledMethod(mon_cur.method) /\ handler_raises)
    /\ rpc_lock' = NoHolder
    /\ mon_cur' = NoRequest
    /\ pc' = [pc EXCEPT !["monitor"] = "loop"]
    /\ UNCHANGED <<execVars, linkVars, produced, received, topicVars, cmVars, now,
                   userVars, queueVars,
                   work_cur, prod_cur, envVars, bus_out, fired, emitted, raised,
                   produce_failed, sig_received, suicide_called>>

\* ------------------------------------------------------------------------
\* The data path: main consumer, dispatcher, main pool, producer. The RPC
\* topics and the pipe are silent and the generator has returned.
\* ------------------------------------------------------------------------
Init ==
    \E syn \in BOOLEAN, seq \in BOOLEAN, nmain \in 1..MaxPool :
        InitWith(SetExecutionOpts(syn, seq, 1, nmain), "parity", <<"t1">>, <<"out1">>, 0,
                 MaxRpc, MaxDirect, MaxSend)

Next ==
    \/ Start
    \/ ConsumerMainStep
    \/ ConsumerMainPollRaises
    \/ InputHandlerLoop
    \/ InputHandlerGet
    \/ InputHandlerGetEmpty
    \/ \E w \in MainPool : PoolWorkerStop(w)
    \/ \E w \in MainPool : MainWorkerTake(w)
    \/ \E w \in MainPool : WorkerAcquire(w)
    \/ \E w \in MainPool : TransformReturns(w)
    \/ \E w \in MainPool : TransformRaises(w)
    \/ \E w \in MainPool : TransformPost(w)
    \/ ProducerLoop
    \/ ProducerProduce

Spec == Init /\ [][Next]_vars

\* ------------------------------------------------------------------------
\* Commit after produce (C1), callback order (C4), publish failure (C9) and
\* transform failure (C10)
\* ------------------------------------------------------------------------
Published(msg, k) == <<msg, k>> \in Range(bus_out)
FlagsRaised == \A t \in Launched : will_stop[t]
CommitFired(msg) == [name |-> "commit", msg |-> msg] \in Range(fired)

\* C1: in synchronous mode, whenever the commit of a message consumed from a
\* main input topic has been executed, every envelope of that message's
\* transform invocation has been published without error.
C1_CommitOnlyAfterPublish ==
    synchronous =>
        \A i \in 1..Len(fired) :
            (fired[i].name = "commit" /\ fired[i].msg[1] \in Topics) =>
                \E em \in emitted :
                    /\ em.msg = fired[i].msg
                    /\ \A k \in 1..em.n : Published(em.msg, k)

\* C4 as stated: for a batch that carries both callbacks the user callback
\* fires before the commit callback, which is the last one to fire.
C4_CommitFiresLast ==
    \A i \in 1..Len(fired) : \A j \in 1..Len(fired) :
        (fired[i].name = "commit" /\ fired[j].name = "user"
         /\ fired[i].msg = fired[j].msg) => j < i

\* C4 amended: for a batch that carries both callbacks the commit callback
\* fires first and the user callback right after it, so the user callback is
\* the last one to fire.
C4_CommitFiresFirst ==
    \A j \in 1..Len(fired) :
        fired[j].name = "user" =>
            /\ j > 1
            /\ fired[j - 1] = [name |-> "commit", msg |-> fired[j].msg]
            /\ \A i \in (j + 1)..Len(fired) : fired[i].msg # fired[j].msg

\* a batch with both callbacks has been published and its callbacks have fired
C4_Witness ==
    \E j \in 1..Len(fired) : fired[j].name = "user" /\ CommitFired(fired[j].msg)

\* C9: once produce or flush has failed for an envelope the stop flag of every
\* engine thread is raised, and no step publishes another envelope.
C9_PublishFailureStopsTheLink ==
    /\ [](produce_failed => FlagsRaised)
    /\ [][produce_failed => bus_out' = bus_out]_vars

\* a publish has failed, the producer thread has ended and an envelope is
\* left on the output queue
C9_Witness ==
    produce_failed /\ pc["producer"] = "done" /\ output_messages # <<>>

\* C10: once the user transform has raised for a message, every stop flag is
\* raised, no envelope of that invocation is on the output queue, with the
\* producer or on the bus, the message's commit has not been executed, and
\* the worker that ran the transform does not hold the RPC mutex.
C10_TransformFailureIsFatal ==
    \A r \in raised :
        /\ FlagsRaised
        /\ \A i \in 1..Len(output_messages) : output_messages[i].src # r.msg
        /\ prod_cur.src # r.msg
        /\ \A i \in 1..Len(bus_out) : bus_out[i][1] # r.msg
        /\ ~CommitFired(r.msg)
        /\ rpc_lock # r.worker
        /\ pc[r.worker] \notin {"transform", "post"}

\* the transform has raised in synchronous mode, where the message has a
\* commit callback, and the worker is through with the task
C10_Witness ==
    \E r \in raised : synchronous /\ pc[r.worker] \in {"idle", "done"}

\* the envelopes of transform invocations that are on the output queue, or
\* with the producer
Pending == Range(output_messages) \cup ({prod_cur} \ {NoElectron})
CarriesCommit(e) == \E i \in 1..Len(e.callbacks) : e.callbacks[i].name = "commit"
IsLastOfBatch(e) == \E em \in emitted : em.msg = e.src /\ em.n = e.idx

\* the place of an envelope in the order of publication, 0 when it is not
\* on the bus
PlaceOf(msg, k) ==
    IF Published(msg, k) THEN CHOOSE i \in 1..Len(bus_out) : bus_out[i] = <<msg, k>> ELSE 0

\* the messages of a topic come to the work queue in offset order
PutBefore(m1, m2) == m1[1] = m2[1] /\ m1[2] < m2[2]

\* C22: in sequential mode, when a message was put on the work queue before
\* another one, the first one has been through its transform and all its
\* envelopes are on the bus before any envelope of the second one is.
C22_SequentialKeepsOrder ==
    sequential =>
        \A j \in 1..Len(bus_out) : \A m1 \in Msgs :
            PutBefore(m1, bus_out[j][1]) =>
                /\ \E em \in emitted : em.msg = m1
                /\ \A em \in emitted :
                      em.msg = m1 =>
                          \A k \in 1..em.n : PlaceOf(m1, k) \in 1..(j - 1)

\* an asynchronous sequential link has published two envelopes of the first
\* message and then one of the second
C22_Witness ==
    /\ sequential /\ ~synchronous
    /\ Len(bus_out) = 3
    /\ bus_out[1][1] = <<"t1", 1>> /\ bus_out[2][1] = <<"t1", 1>>
    /\ bus_out[3][1] = <<"t1", 2>>

\* every item of a main input topic that is on the way to a transform
MainItems ==
    {input_messages[i] : i \in {j \in 1..Len(input_messages) :
                                    input_messages[j].topic \in Topics}}
        \cup Range(tasks_main)
        \cup {work_cur[w].task : w \in {x \in MainPool : work_cur[x] # NoWork}}

\* C23: in asynchronous mode no message of a main input topic is enqueued
\* with a commit callback, no envelope carries one, and no commit is
\* executed, neither by a worker nor by the producer.
C23_NoExplicitCommitWhenAsynchronous ==
    ~synchronous =>
        /\ \A it \in MainItems : ~it.commit
        /\ \A e \in Pending : ~CarriesCommit(e)
        /\ \A i \in 1..Len(fired) : fired[i].name # "commit"

\* an asynchronous link has published an envelope of one message and has
\* been through a transform that returned nothing for another
C23_Witness ==
    /\ ~synchronous
    /\ bus_out # <<>>
    /\ \E em \in emitted : em.n = 0 /\ \A w \in MainPool : work_cur[w].task.offset # em.msg[2]

\* Consumer(properties) is called in _kafka_consumer_main and in
\* _kafka_consumer_rpc
Owner(handle) == IF handle = "main" THEN "consumer_main" ELSE "consumer_rpc"

\* C30: every operation on a consumer handle, subscribe, poll, commit or
\* close, is called by the consumer thread that made the handle, in
\* synchronous and in asynchronous mode.
C30_ConsumerHandlesAreNotShared ==
    \A u \in consumer_ops : u.thread = Owner(u.handle)

\* the same in asynchronous mode alone
C30_NotSharedWhenAsynchronous ==
    ~synchronous => \A u \in consumer_ops : u.thread = Owner(u.handle)

\* ------------------------------------------------------------------------
\* The data path with transforms that may return one Electron object several
\* times in a list
\* ------------------------------------------------------------------------
InitBatch ==
    \E syn \in BOOLEAN, seq \in BOOLEAN :
        InitWith(SetExecutionOpts(syn, seq, 1, 1), "parity", <<"t1">>, <<"out1">>, 0,
                 MaxRpc, MaxDirect, MaxSend)

NextBatch ==
    \/ Next
    \/ \E w \in MainPool : TransformReturnsSameElectron(w)

SpecBatch == InitBatch /\ [][NextBatch]_vars

\* C21: of the envelopes one transform invocation returned, only the last
\* one carries the commit callback of the source message, whatever the list
\* returned.
C21_CommitOnLastEnvelopeOnly ==
    \A e \in Pending : CarriesCommit(e) => IsLastOfBatch(e)

\* ------------------------------------------------------------------------
\* The data path of a synchronous link whose transform returns and whose
\* consumer does not fail
\* ------------------------------------------------------------------------
InitSync ==
    InitWith(SetExecutionOpts(TRUE, TRUE, 1, 1), "parity", <<"t1">>, <<"out1">>, 0,
             MaxRpc, MaxDirect, MaxSend)

DispatchStep ==
    \/ InputHandlerLoop
    \/ InputHandlerGet
    \/ InputHandlerGetEmpty

WorkerStep ==
    \/ \E w \in MainPool : PoolWorkerStop(w)
    \/ \E w \in MainPool : MainWorkerTake(w)
    \/ \E w \in MainPool : WorkerAcquire(w)
    \/ \E w \in MainPool : TransformReturns(w)
    \/ \E w \in MainPool : TransformPost(w)

ProducerStep ==
    \/ ProducerLoop
    \/ ProducerProduce

NextSync ==
    \/ Start
    \/ ConsumerMainStep
    \/ DispatchStep
    \/ WorkerStep
    \/ ProducerStep

SpecSync == InitSync /\ [][NextSync]_vars

\* every thread that can take a step eventually takes one
FairSync ==
    /\ SpecSync
    /\ WF_vars(Start)
    /\ WF_vars(ConsumerMainStep)
    /\ WF_vars(DispatchStep)
    /\ WF_vars(WorkerStep)
    /\ WF_vars(ProducerStep)

MainMsgs == {m \in Msgs : m[1] \in Topics}
ReturnedTuple(m) == \E em \in emitted : em.msg = m /\ em.ucb
Returned(m) == \E em \in emitted : em.msg = m
AllPublished(m) == \A em \in emitted : em.msg = m => \A k \in 1..em.n : Published(m, k)
UserFirings(m) == {i \in 1..Len(fired) : fired[i] = [name |-> "user", msg |-> m]}

\* C25: in synchronous mode the callback of a tuple returned by transform is
\* executed, unless a publish fails, once and not before every envelope of
\* the result is on the bus, whether the result is nothing, one envelope or
\* a list.
C25_UserCallbackOnceAfterPublish ==
    /\ \A m \in MainMsgs :
          (synchronous /\ ReturnedTuple(m)) ~> (UserFirings(m) # {} \/ produce_failed)
    /\ [](\A m \in MainMsgs :
            /\ Cardinality(UserFirings(m)) <= 1
            /\ UserFirings(m) # {} => (AllPublished(m) \/ produce_failed))

\* the same for the results that hold an envelope
C25_UserCallbackOfNonEmptyResult ==
    /\ \A m \in MainMsgs :
          (\E em \in emitted : em.msg = m /\ em.ucb /\ em.n > 0)
              ~> (UserFirings(m) # {} \/ produce_failed)
    /\ [](\A m \in MainMsgs :
            /\ Cardinality(UserFirings(m)) <= 1
            /\ UserFirings(m) # {} => (AllPublished(m) \/ produce_failed))

\* C28: in synchronous mode every message of a main input topic whose
\* transform has returned is committed in the end unless a publish fails,
\* and the commit of a message with envelopes is not executed while one of
\* them is still on the output queue or with the producer.
C28_EveryMessageIsCommitted ==
    /\ \A m \in MainMsgs : (synchronous /\ Returned(m)) ~> (CommitFired(m) \/ produce_failed)
    /\ [](\A m \in MainMsgs :
            CommitFired(m) =>
                /\ \A e \in Range(output_messages) : e.src # m
                /\ prod_cur.src # m
                /\ AllPublished(m) \/ produce_failed)

\* both messages are committed: one by the worker, with nothing to publish,
\* the other one after its envelopes were published
C28_Witness ==
    /\ ~produce_failed
    /\ \E m1 \in MainMsgs, m2 \in MainMsgs :
          /\ CommitFired(m1) /\ CommitFired(m2)
          /\ [msg |-> m1, n |-> 0, ucb |-> FALSE] \in emitted
          /\ [msg |-> m2, n |-> MaxOut, ucb |-> FALSE] \in emitted
          /\ Published(m2, MaxOut)

\* ------------------------------------------------------------------------
\* Commit order of the main input (C31)
\* ------------------------------------------------------------------------
\* the positions in fired of the commits of main-input messages
MainCommits == {i \in 1..Len(fired) : fired[i].name = "commit" /\ fired[i].msg \in MainMsgs}

\* C31: in synchronous mode the commits of the messages of one partition are
\* executed in offset order: the commit of a later message never comes
\* before the commit of an earlier one, whatever the transforms return.
C31_CommitsInOffsetOrder ==
    synchronous =>
        \A i \in MainCommits, j \in MainCommits :
            (i < j /\ fired[i].msg[1] = fired[j].msg[1]) => fired[i].msg[2] <= fired[j].msg[2]

\* the same for the messages whose transforms returned envelopes: their
\* commits are all executed by the producer thread
C31_InOrderAmongPublished ==
    synchronous =>
        \A i \in MainCommits, j \in MainCommits :
            (/\ i < j
             /\ fired[i].msg[1] = fired[j].msg[1]
             /\ \A em \in emitted : em.msg \in {fired[i].msg, fired[j].msg} => em.n > 0)
                => fired[i].msg[2] <= fired[j].msg[2]

\* ------------------------------------------------------------------------
\* Commit at most once (C35), with transforms that may return one Electron
\* object several times
\* ------------------------------------------------------------------------
\* the places in fired where the commit callback of a message was executed
CommitFirings(m) == {i \in 1..Len(fired) : fired[i] = [name |-> "commit", msg |-> m]}

\* C35: in synchronous mode the commit callback of a source message is
\* executed at most once, whatever the transform returns, a list that holds
\* one envelope object more than once included.
C35_CommitAtMostOnce ==
    synchronous => \A m \in MainMsgs : Cardinality(CommitFirings(m)) <= 1

\* ------------------------------------------------------------------------
\* send() from the generator and the producer thread; no input message
\* ------------------------------------------------------------------------
InitSend ==
    \E syn \in BOOLEAN, seq \in BOOLEAN, outs \in {<<>>, <<"out1", "out2">>} :
        InitWith(SetExecutionOpts(syn, seq, 1, 1), "parity", <<"t1">>, outs, MaxMsgs,
                 MaxRpc, MaxDirect, 0)

NextSend ==
    \/ Start
    \/ GeneratorSend
    \/ GeneratorReturn
    \/ ProducerLoop
    \/ ProducerProduce

SpecSend == InitSend /\ [][NextSend]_vars

\* the callbacks of the n-th sent envelope that have fired, in firing order
FiredOf(n) == SelectSeq(fired, LAMBDA c : c.msg = <<"send", n>>)
NamesOf(cbs) == [i \in 1..Len(cbs) |-> cbs[i].name]

\* C3: the callbacks [A, B, C] of a sent envelope fire in that order, once
\* each, and only when the publish of the envelope has gone through.
C3_CallbacksAfterPublish ==
    \A n \in 1..MaxSend :
        /\ NamesOf(FiredOf(n)) \in {<<>>, <<"A", "B", "C">>}
        /\ FiredOf(n) # <<>> => Published(<<"send", n>>, 1)

\* the calls of _produce so far for an envelope sent without topic, without
\* key, with a string key
Unaddressed == {i \in 1..Len(produced) : produced[i].etopic = NoTopic}
Keyless == {i \in 1..Len(produced) : produced[i].handed /\ produced[i].ekey = NoKey}
StringKeyed == {i \in 1..Len(produced) :
                   produced[i].handed /\ produced[i].ekey.type = "str"}

\* C18: an envelope without topic goes to the first configured output topic;
\* with no output topic configured nothing of it is handed to the producer
\* or reaches the bus, and every thread of the link is told to stop.
C18_UnsetTopicGoesToFirstOutputTopic ==
    \A i \in Unaddressed :
        IF output_topics # <<>>
        THEN produced[i].handed /\ produced[i].topic = output_topics[1]
        ELSE /\ ~produced[i].handed
             /\ ~Published(produced[i].src, 1)
             /\ suicide_called
             /\ FlagsRaised

C18_Witness ==
    /\ Len(output_topics) = 2
    /\ Len(produced) = 2
    /\ produced[1].etopic = NoTopic /\ produced[1].topic = "out1"
    /\ produced[2].etopic = "out2" /\ produced[2].topic = "out2"

\* an envelope without topic met a link without output topics
C18_FatalWitness ==
    /\ output_topics = <<>>
    /\ Len(produced) = 2
    /\ produced[1].etopic = "out2" /\ produced[1].handed
    /\ produced[2].etopic = NoTopic /\ ~produced[2].handed
    /\ FlagsRaised

\* C19: a keyless envelope is handed to the producer with the UTF-8 bytes of
\* the link's uid as partition key when the link is sequential, which a
\* synchronous link always is, and with no partition key otherwise.
C19_KeylessPartitionKey ==
    /\ synchronous => sequential
    /\ \A i \in Keyless :
          produced[i].key = IF sequential THEN [kind |-> "bytes", val |-> <<117, 49>>]
                            ELSE NullKey

C19_Witness ==
    /\ synchronous /\ sequential
    /\ Len(produced) = 2
    /\ produced[1].ekey = NoKey /\ produced[1].handed /\ produced[1].key.kind = "bytes"
    /\ produced[2].ekey.type = "obj" /\ produced[2].key.kind = "pickle"

\* C20: an envelope with a string key K is handed to the producer with the
\* UTF-8 bytes of K as partition key.
C20_StringKeyIsEncoded ==
    \A i \in StringKeyed :
        produced[i].key = [kind |-> "bytes", val |-> Utf8(produced[i].ekey.val)]

\* the same for the strings that are not empty
C20_NonEmptyStringKeyIsEncoded ==
    \A i \in StringKeyed :
        produced[i].ekey.val # <<>> =>
            produced[i].key = [kind |-> "bytes", val |-> Utf8(produced[i].ekey.val)]

\* "\u00e9\u20ac" went out as c3 a9 e2 82 ac
C20_EncodedWitness ==
    \E i \in StringKeyed :
        /\ produced[i].ekey.val = <<233, 8364>>
        /\ produced[i].key.val = <<195, 169, 226, 130, 172>>

\* ------------------------------------------------------------------------
\* Transforms, bus RPC calls and direct RPC requests; nothing is published
\* ------------------------------------------------------------------------
InitRpc ==
    \E syn \in BOOLEAN, nrpc \in 1..MaxPool, nmain \in 1..MaxPool :
        InitWith(SetExecutionOpts(syn, FALSE, nrpc, nmain), "parity", <<"t1">>, <<"out1">>, 0,
                 0, MaxDirect - 1, MaxSend)

NextRpc ==
    \/ Start
    \/ ConsumerMainStep
    \/ ConsumerRpcPoll
    \/ InputHandlerLoop
    \/ InputHandlerGet
    \/ InputHandlerGetEmpty
    \/ \E w \in MainPool : MainWorkerTake(w)
    \/ \E w \in RpcPool : RpcWorkerTake(w)
    \/ \E w \in MainPool \cup RpcPool : WorkerAcquire(w)
    \/ \E w \in MainPool : TransformReturns(w)
    \/ \E w \in MainPool : TransformPost(w)
    \/ \E w \in RpcPool : RpcHandlerEnds(w)
    \/ MonitorLoop
    \/ MonitorAcquire
    \/ MonitorCall

SpecRpc == InitRpc /\ [][NextRpc]_vars

\* the thread is inside a user transform, a bus RPC handler or a direct RPC
\* handler
ExecutingBody(t) ==
    \/ t \in MainWorkers /\ pc[t] = "transform"
    \/ t \in RpcWorkers /\ pc[t] = "handler"
    \/ t = "monitor" /\ pc[t] = "call"

\* C2: at most one thread is inside a transform body or an RPC handler body,
\* and the thread that is holds the RPC mutex.
C2_OneBodyAtATime ==
    \A t \in Workers \cup {"monitor"} :
        ExecutingBody(t) =>
            /\ rpc_lock = t
            /\ \A u \in Workers \cup {"monitor"} : ExecutingBody(u) => u = t

\* a bus RPC handler runs while a transform and a direct request wait for
\* the mutex
C2_Witness ==
    /\ \E t \in RpcWorkers : ExecutingBody(t)
    /\ \E u \in MainWorkers : pc[u] = "acquire"
    /\ pc["monitor"] = "acquire"

\* the direct call of the request has raised in its handler
HandlerRaisedFor(id) ==
    \E k \in 1..Len(invoked) :
        invoked[k].path = "direct" /\ invoked[k].id = id /\ invoked[k].raised

MethodOfRequest(id) ==
    (CHOOSE r \in Range(received) : r.path = "direct" /\ r.id = id).method

\* C16: no method outside the registry is ever invoked; a direct request
\* for such a method is answered, if at all, with METHOD_NOT_FOUND; a bus
\* call for such a method raises no stop flag and gets no reply.
C16_UnknownMethodIsNeverInvoked ==
    /\ \A k \in 1..Len(invoked) : invoked[k].method \in Registry
    /\ \A i \in 1..Len(replies) :
          /\ \E r \in Range(received) : r.path = "direct" /\ r.id = replies[i].id
          /\ MethodOfRequest(replies[i].id) \notin Registry =>
                 replies[i].error_code = "METHOD_NOT_FOUND"
    /\ (\E r \in Range(received) : r.path = "bus" /\ r.method \notin Registry) =>
          (~suicide_called /\ \A t \in Threads : ~will_stop[t])

\* a bus call and a direct request, both for a method outside the registry,
\* are over: the one dropped, the other answered
C16_Witness ==
    /\ \E r \in Range(received) : r.path = "bus" /\ r.method \notin Registry
    /\ \E i \in 1..Len(replies) : replies[i].error_code = "METHOD_NOT_FOUND"
    /\ \A w \in RpcWorkers : pc[w] = "idle"
    /\ invoked = <<>>

\* C17: an RPC handler that raised leaves every stop flag down, the mutex is
\* held only by a thread inside a body, so later calls and transforms get
\* it, and the reply to a direct request whose handler raised carries
\* INTERNAL_ERROR.
C17_HandlerFailureIsNotFatal ==
    /\ (\E k \in 1..Len(invoked) : invoked[k].raised) =>
          (~suicide_called /\ \A t \in Threads : ~will_stop[t])
    /\ rpc_lock # NoHolder => ExecutingBody(rpc_lock)
    /\ \A i \in 1..Len(replies) :
          HandlerRaisedFor(replies[i].id) => replies[i].error_code = "INTERNAL_ERROR"

\* a bus handler raised, then a direct handler raised and its caller got
\* INTERNAL_ERROR, and a transform has returned since
C17_Witness ==
    /\ Len(invoked) = 2
    /\ invoked[1].path = "bus" /\ invoked[1].raised
    /\ invoked[2].path = "direct" /\ invoked[2].raised
    /\ \E i \in 1..Len(replies) : replies[i].error_code = "INTERNAL_ERROR"
    /\ emitted # {}

\* ------------------------------------------------------------------------
\* The RPC topics alone: RPC consumer, dispatcher and RPC pool of a link in
\* either mode whose consumer does not fail (C32)
\* ------------------------------------------------------------------------
InitBus ==
    \E syn \in BOOLEAN, nrpc \in 1..MaxPool, mode \in {"parity", "exp"} :
        InitWith(SetExecutionOpts(syn, FALSE, nrpc, 1), mode, <<"t1">>, <<"out1">>, MaxMsgs,
                 0, MaxDirect, MaxSend)

RpcWorkerStep ==
    \/ \E w \in RpcPool : RpcWorkerTake(w)
    \/ \E w \in RpcPool : WorkerAcquire(w)
    \/ \E w \in RpcPool : RpcHandlerEnds(w)

NextBus ==
    \/ Start
    \/ ConsumerRpcPoll
    \/ DispatchStep
    \/ RpcWorkerStep

SpecBus == InitBus /\ [][NextBus]_vars

\* every thread that can take a step eventually takes one
FairBus ==
    /\ SpecBus
    /\ WF_vars(Start)
    /\ WF_vars(ConsumerRpcPoll)
    /\ WF_vars(DispatchStep)
    /\ WF_vars(RpcWorkerStep)

\* 'enable.auto.commit' of the RPC consumer's properties: the consumer is
\* made from _kafka_consumer_synchronous_properties in either mode
RpcAutoCommit == FALSE

RpcMsgs == {m \in Msgs : m[1] = RpcTopic /\ m[2] <= MaxRpc}

\* the dispatcher has submitted the call of the message to the RPC pool
Dispatched(m) ==
    \/ \E t \in Range(tasks_rpc) : MsgOf(t) = m
    \/ \E r \in Range(received) : r.path = "bus" /\ r.id = m[2]

\* the same for a call of a registered method
DispatchedKnown(m) ==
    \/ \E t \in Range(tasks_rpc) : MsgOf(t) = m /\ t.method \in Registry
    \/ \E r \in Range(received) : r.path = "bus" /\ r.id = m[2] /\ r.method \in Registry

Committed(m) == RpcAutoCommit \/ CommitFired(m)

\* C32: every message the RPC consumer put on the work queue is committed in
\* the end once the dispatcher has processed it, in synchronous and in
\* asynchronous mode, whether its method is registered or not and whether
\* the handler returns or raises.
C32_EveryRpcMessageIsCommitted ==
    \A m \in RpcMsgs : Dispatched(m) ~> Committed(m)

\* the same for the calls of registered methods on a synchronous link
C32_KnownRpcIsCommittedWhenSynchronous ==
    \A m \in RpcMsgs : (synchronous /\ DispatchedKnown(m)) ~> Committed(m)

\* ------------------------------------------------------------------------
\* The RPC topics with a consumer that may fail and signals that may come
\* (C33)
\* ------------------------------------------------------------------------
NextBusStop ==
    \/ NextBus
    \/ \E w \in RpcPool : RpcCommitWhile(w)
    \/ \E w \in RpcPool : RpcCommitTry(w)
    \/ ConsumerRpcPollRaises
    \/ \E w \in RpcPool : PoolWorkerStop(w)
    \/ \E sig \in Signals : Signal(sig)

SpecBusStop == InitBus /\ [][NextBusStop]_vars

\* the RPC consumer thread leaves its while loop
RpcConsumerEnds == pc["consumer_rpc"] = "loop" /\ pc'["consumer_rpc"] = "done"

\* C33: the RPC consumer thread polls its three topics until shutdown is
\* requested or the consumer raises (which requests shutdown): it never ends
\* with its stop flag down, so not on a poll that returned no message, in
\* parity mode and in exp mode alike.
C33_RpcConsumerEndsOnlyOnShutdown ==
    [][RpcConsumerEnds => will_stop["consumer_rpc"]]_vars

\* the same in parity mode alone
C33_EndsOnlyOnShutdownInParityMode ==
    [][(input_mode = "parity" /\ RpcConsumerEnds) => will_stop["consumer_rpc"]]_vars

\* ------------------------------------------------------------------------
\* The three holders of the RPC mutex: a transform, a bus RPC call and a
\* direct RPC request, on a link whose RPC consumer may fail (C34)
\* ------------------------------------------------------------------------
\* one message on the RPC topics and, to wait for the mutex, either one
\* message on the main input topic or one request on the pipe
InitLock ==
    \E syn \in BOOLEAN, other \in {"transform", "direct"} :
        InitWith(SetExecutionOpts(syn, FALSE, 1, 1), "parity", <<"t1">>, <<"out1">>,
                 IF other = "transform" THEN MaxMsgs - 1 ELSE MaxMsgs, 0,
                 IF other = "direct" THEN MaxDirect - 1 ELSE MaxDirect, MaxSend)

MainLockStep ==
    \/ \E w \in MainPool : MainWorkerTake(w)
    \/ \E w \in MainPool : WorkerAcquire(w)
    \/ \E w \in MainPool : TransformReturns(w)
    \/ \E w \in MainPool : TransformRaises(w)
    \/ \E w \in MainPool : TransformPost(w)

RpcCommitStep ==
    \/ \E w \in RpcPool : RpcCommitWhile(w)
    \/ \E w \in RpcPool : RpcCommitTry(w)

MonitorStep ==
    \/ MonitorLoop
    \/ MonitorAcquire
    \/ MonitorCall

StopStep == \E w \in MainPool \cup RpcPool : PoolWorkerStop(w)

NextLock ==
    \/ Start
    \/ ConsumerMainStep
    \/ ConsumerRpcPoll
    \/ ConsumerRpcPollRaises
    \/ DispatchStep
    \/ MainLockStep
    \/ RpcWorkerStep
    \/ RpcCommitStep
    \/ MonitorStep
    \/ StopStep

SpecLock == InitLock /\ [][NextLock]_vars

\* every thread that can take a step eventually takes one; whether a poll
\* of the RPC consumer raises is not up to the link
FairLock ==
    /\ SpecLock
    /\ WF_vars(Start)
    /\ WF_vars(ConsumerMainStep)
    /\ WF_vars(ConsumerRpcPoll)
    /\ WF_vars(DispatchStep)
    /\ WF_vars(MainLockStep)
    /\ WF_vars(RpcWorkerStep)
    /\ WF_vars(RpcCommitStep)
    /\ WF_vars(MonitorStep)
    /\ WF_vars(StopStep)

RetryingCommit(t) == pc[t] \in {"commit_while", "commit_try"}

\* C34: every acquisition of the RPC mutex is followed by its release,
\* whether the handler returns or raises and whether a commit attempt fails:
\* whenever the mutex is held it is free again later, so no transform, bus
\* call or direct request waits for it for ever.
C34_EveryAcquireIsReleased ==
    (rpc_lock # NoHolder) ~> (rpc_lock = NoHolder)

\* the mutex is released unless its holder is retrying a commit
C34_ReleasedUnlessCommitIsRetried ==
    (rpc_lock # NoHolder) ~> (rpc_lock = NoHolder \/ \E t \in RpcPool : RetryingCommit(t))

\* ------------------------------------------------------------------------
\* Shutdown: every engine thread, with nothing left to consume
\* ------------------------------------------------------------------------
InitStop ==
    \E syn \in BOOLEAN, nrpc \in 1..MaxPool, nmain \in 1..MaxPool,
       topics \in {<<>>, <<"t1">>} :
        InitWith(SetExecutionOpts(syn, FALSE, nrpc, nmain), "parity", topics, <<"out1">>, MaxMsgs,
                 MaxRpc, MaxDirect, MaxSend)

\* the steps of the engine threads and of start()
EngineStep ==
    \/ ConsumerMainStep
    \/ ConsumerRpcPoll
    \/ InputHandlerLoop
    \/ InputHandlerGetEmpty
    \/ \E w \in MainPool \cup RpcPool : PoolWorkerStop(w)
    \/ ProducerLoop
    \/ GeneratorReturn
    \/ MonitorLoop
    \/ JoinAll

NextStop ==
    \/ Start
    \/ EngineStep
    \/ ConsumerMainPollRaises
    \/ ConsumerRpcPollRaises
    \/ \E sig \in Signals : Signal(sig)

SpecStop == InitStop /\ [][NextStop]_vars

\* C7: after suicide, as long as start() has not got past its joins, some
\* engine thread still has a step to take towards its end: no launched link
\* is left with a thread that never terminates.
C7_ShutdownIsTotal ==
    (suicide_called /\ pc["start"] = "joining") => ENABLED <<EngineStep>>_vars

\* C8: every signal the running link has received has called suicide, so
\* the stop flag of every engine thread is raised.
C8_SignalsTriggerShutdown ==
    sig_received # {} => (suicide_called /\ FlagsRaised)

\* ------------------------------------------------------------------------
\* start() from two callers, the engine threads with nothing to consume,
\* SIGTERM
\* ------------------------------------------------------------------------
InitStart ==
    InitWith(SetExecutionOpts(FALSE, FALSE, 1, 1), "parity", <<"t1">>, <<"out1">>,
             MaxMsgs, MaxRpc, MaxDirect, MaxSend)

NextStart ==
    \/ \E c \in Callers : StartCheck(c)
    \/ \E c \in Callers : StartSetLaunched(c)
    \/ \E c \in Callers : StartProducers(c)
    \/ \E c \in Callers : StartSetup(c)
    \/ \E c \in Callers : StartLaunch(c)
    \/ \E c \in Callers : StartJoin(c)
    \/ ConsumerMainStep
    \/ ConsumerRpcPoll
    \/ InputHandlerLoop
    \/ InputHandlerGetEmpty
    \/ \E w \in MainPool \cup RpcPool : PoolWorkerStop(w)
    \/ ProducerLoop
    \/ GeneratorReturn
    \/ MonitorLoop
    \/ Signal("SIGTERM")

SpecStart == InitStart /\ [][NextStart]_vars

\* C11: a caller whose setup() raised has had suicide run to its end, has
\* not been thrown out of start() by an exception, launches no engine thread
\* afterwards, and the process does not end with a status other than 0.
C11_SetupFailureShutsDownCleanly ==
    \A c \in setup_raised :
        /\ suicide_called
        /\ start_pc[c] \notin {"crashed", "launch", "joining"}
        /\ exit_status \in {"none", "0"}

\* C12: however many calls of start() there are, and however they interleave,
\* the producers are created at most once and _launch_threads runs at most
\* once.
C12_LaunchedAtMostOnce ==
    producers_made <= 1 /\ launches <= 1

\* ------------------------------------------------------------------------
\* The peer registry: add_to_store
\* ------------------------------------------------------------------------
\* environ['JSONRPC_HOST'], environ['JSONRPC_PORT']
JsonRpcHost == "h0"
JsonRpcPort == "p0"
Hosts == {"h0", "h1"}
Ports == {"p0", "p1"}
Uids == {"u1", "u2"}
Groups == {"g1", "g2"}
\* what the `available` request to the announced endpoint comes to: a result
\* of true or false, no answer (urlopen raises), an answer without a result
Probes == {"true", "false", "unreachable", "malformed"}

\* ItIsMe had the announced endpoint never been compared with the link's own
ItIsMeNever(host, port) == FALSE

\* _it_is_me
ItIsMe(host, port) == host = JsonRpcHost /\ port = JsonRpcPort

\* _is_instance_available: False when urlopen raises, the result otherwise
IsInstanceAvailable(probe) == probe = "true"

\* reading ['result'] from an answer that has none raises out of add_to_store
ProbeRaises(probe) == probe = "malformed"

InstanceInfo(uid, group, host, port) ==
    [host |-> host, port |-> port, scheme |-> "http", uid |-> uid, group |-> group]

\* self._store['by_uid'][context['uid']] = instance_info
ByUidAfter(bu, uid, info) ==
    [u \in DOMAIN bu \cup {uid} |-> IF u = uid THEN info ELSE bu[u]]

\* the by-group index left as it is
ByGroupAfterUntouched(bg, group, uid, info) == bg

\* the group's dict is created when missing, then [group][uid] = instance_info
ByGroupAfter(bg, group, uid, info) ==
    [g \in DOMAIN bg \cup {group} |->
        IF g = group
        THEN [u \in (IF g \in DOMAIN bg THEN DOMAIN bg[g] ELSE {}) \cup {uid} |->
                 IF u = uid THEN info ELSE bg[g][u]]
        ELSE bg[g]]

\* add_to_store(context, host, port, scheme)
AddToStore(uid, group, host, port, probe) ==
    /\ store_call' = [uid |-> uid, group |-> group, host |-> host, port |-> port,
                      probe |-> probe]
    /\ IF ItIsMe(host, port) \/ ProbeRaises(probe) \/ ~IsInstanceAvailable(probe)
       THEN UNCHANGED <<by_uid, by_group>>
       ELSE /\ by_uid' = ByUidAfter(by_uid, uid, InstanceInfo(uid, group, host, port))
            /\ by_group' = ByGroupAfter(by_group, group, uid,
                                        InstanceInfo(uid, group, host, port))
    /\ UNCHANGED <<execVars, output_topics, startVars, histVars, topicVars, cmVars, now,
                   userVars, pc, will_stop, rpc_lock, queueVars, curVars, envVars,
                   obsVars, suicide_called, peers, rpc_link>>

InitStore ==
    InitWith(SetExecutionOpts(FALSE, FALSE, 1, 1), "parity", <<"t1">>, <<"out1">>,
             MaxMsgs, MaxRpc, MaxDirect, MaxSend)

NextStore ==
    \E uid \in Uids, group \in Groups, host \in Hosts, port \in Ports, probe \in Probes :
        AddToStore(uid, group, host, port, probe)

SpecStore == InitStore /\ [][NextStore]_vars

UidsByGroup == UNION {DOMAIN by_group[g] : g \in DOMAIN by_group}

\* C13: a UID is a key of by_uid if and only if it is a key of some group's
\* entry of by_group, every UID is found under the group by_uid records for
\* it, with the same record, and a call that stores a UID by_uid did not
\* have makes by_uid one entry larger.
C13_IndicesAgree ==
    /\ [](/\ DOMAIN by_uid = UidsByGroup
          /\ \A u \in DOMAIN by_uid :
                /\ by_uid[u].group \in DOMAIN by_group
                /\ u \in DOMAIN by_group[by_uid[u].group]
                /\ by_group[by_uid[u].group][u] = by_uid[u])
    /\ [][(by_uid' # by_uid /\ store_call'.uid \notin DOMAIN by_uid) =>
              Cardinality(DOMAIN by_uid') = Cardinality(DOMAIN by_uid) + 1]_vars

\* both UIDs are stored, one of them announced twice under different groups
C13_Witness ==
    /\ DOMAIN by_uid = Uids
    /\ \E u \in Uids : \E g \in DOMAIN by_group :
           u \in DOMAIN by_group[g] /\ by_uid[u].group # g

\* C14: a call changes by_uid or by_group only if the announced host and
\* port are not both the link's own and the probe's result was true.
C14_OnlyAvailablePeersAreStored ==
    [][(by_uid' # by_uid \/ by_group' # by_group) =>
          /\ ~(store_call'.host = JsonRpcHost /\ store_call'.port = JsonRpcPort)
          /\ store_call'.probe = "true"]_vars

\* the link's own announcement, with a probe that would have succeeded, has
\* left a registry that holds a peer as it was
C14_Witness ==
    /\ store_call.host = JsonRpcHost /\ store_call.port = JsonRpcPort
    /\ store_call.probe = "true"
    /\ store_call.uid \notin DOMAIN by_uid
    /\ by_uid # EmptyDict

\* ------------------------------------------------------------------------
\* Direct RPC requests, with a bus RPC call and SIGTERM in between
\* ------------------------------------------------------------------------
InitDirect ==
    \E nrpc \in 1..MaxPool :
        InitWith(SetExecutionOpts(FALSE, FALSE, nrpc, 1), "parity", <<"t1">>, <<"out1">>,
                 MaxMsgs, 0, 0, MaxSend)

NextDirect ==
    \/ Start
    \/ ConsumerRpcPoll
    \/ InputHandlerLoop
    \/ InputHandlerGet
    \/ InputHandlerGetEmpty
    \/ \E w \in RpcPool : RpcWorkerTake(w)
    \/ \E w \in RpcPool : WorkerAcquire(w)
    \/ \E w \in RpcPool : RpcHandlerEnds(w)
    \/ MonitorLoop
    \/ MonitorAcquire
    \/ MonitorCall
    \/ Signal("SIGTERM")

SpecDirect == InitDirect /\ [][NextDirect]_vars

\* the requests received over the pipe, in the order of their receipt
DirectRequests == SelectSeq(received, LAMBDA r : r.path = "direct")
BeingHandled(id) == pc["monitor"] = "call" /\ mon_cur.id = id

\* C15: every reply answers a request that was received and is not a
\* notification, no request is answered twice, the replies are in the order
\* of the requests, and every received request that is not a notification
\* has its reply as soon as the monitor is through with it.
C15_OneReplyPerRequestInOrder ==
    /\ \A i \in 1..Len(replies) :
          \E r \in Range(DirectRequests) : r.id = replies[i].id /\ ~r.is_notification
    /\ \A i \in 1..Len(replies) : \A j \in 1..Len(replies) :
          i < j => replies[i].id < replies[j].id
    /\ \A i \in 1..Len(DirectRequests) : \A j \in 1..Len(DirectRequests) :
          i < j => DirectRequests[i].id < DirectRequests[j].id
    /\ \A r \in Range(DirectRequests) :
          (~r.is_notification /\ ~BeingHandled(r.id)) =>
              \E i \in 1..Len(replies) : replies[i].id = r.id

\* three requests have been handled: two have been answered, in their
\* order, and the notification between them has not
C15_Witness ==
    /\ Len(DirectRequests) = 3
    /\ DirectRequests[2].is_notification
    /\ pc["monitor"] = "loop"
    /\ Len(replies) = 2
    /\ replies[1].id = DirectRequests[1].id
    /\ replies[2].id = DirectRequests[3].id

\* ------------------------------------------------------------------------
\* __init__: the consumer group
\* ------------------------------------------------------------------------
\* the groups given to the constructor and with -g: none, "", "g1", "g2"
CtorGroups == {NoneValue, <<>>, <<103, 49>>}
ArgGroups == {NoneValue, <<>>, <<103, 50>>}
\* "Link", "MyLink"
ClassNames == {LinkClassName, <<77, 121, 76, 105, 110, 107>>}

\* __init__ has been entered: nothing is parsed and no attribute is set
InitGroup ==
    /\ InitEngine(SetExecutionOpts(FALSE, FALSE, 1, 1), "parity", <<>>, <<>>, 0, 0, 0, 0)
    /\ ctor_args \in [consumer_group : CtorGroups, uid_consumer_group : BOOLEAN]
    /\ link_args \in [consumer_group : ArgGroups, uid_consumer_group : BOOLEAN]
    /\ class_name \in ClassNames
    /\ consumer_group = Unset
    /\ uid_consumer_group = Unset
    /\ init_pc = "load_args"

groupRest == <<synchronous, sequential, input_mode, num_main_threads, num_rpc_threads,
               late_calls, commitVars, consumer_ops, linkVars, histVars, topicVars, cmVars, now, userVars, pc, will_stop,
               rpc_lock, queueVars, curVars, envVars, obsVars, suicide_called>>

\* _load_args: _set_catenae_properties_from_args keeps the flag of
\* --random-consumer-group in _uid_consumer_group, and
\* _set_kafka_properties_from_args the group of -g in _consumer_group
LoadArgs ==
    /\ init_pc = "load_args"
    /\ uid_consumer_group' = IF link_args.uid_consumer_group THEN TRUE ELSE uid_consumer_group
    /\ consumer_group' = IF IsTruthy(link_args.consumer_group) THEN link_args.consumer_group
                         ELSE consumer_group
    /\ init_pc' = "set_consumer_group"
    /\ UNCHANGED <<ctor_args, link_args, class_name, groupRest>>

\* self._set_consumer_group(consumer_group, uid_consumer_group)
SetConsumerGroupCall ==
    /\ init_pc = "set_consumer_group"
    /\ consumer_group' = SetConsumerGroup(ctor_args.consumer_group,
                                          ctor_args.uid_consumer_group, consumer_group,
                                          uid_consumer_group, Uid, class_name)
    /\ init_pc' = "ready"
    /\ UNCHANGED <<ctor_args, link_args, class_name, uid_consumer_group, groupRest>>

NextGroup ==
    \/ LoadArgs
    \/ SetConsumerGroupCall

SpecGroup == InitGroup /\ [][NextGroup]_vars

\* the groups the user supplied, to the constructor or with -g
UserGroups == {g \in {ctor_args.consumer_group, link_args.consumer_group} : IsTruthy(g)}

\* C24: the consumer group is the one derived from the uid when the
\* per-instance flag is set, by the constructor or by
\* --random-consumer-group; otherwise a group the user supplied, to the
\* constructor or with -g; otherwise the default derived from the name of
\* the class.
C24_ThreeWayConsumerGroup ==
    init_pc = "ready" =>
        IF ctor_args.uid_consumer_group \/ link_args.uid_consumer_group
        THEN consumer_group = <<99, 97, 116, 101, 110, 97, 101, 95, 117, 49>>
        ELSE IF UserGroups # {} THEN consumer_group \in UserGroups
        ELSE consumer_group \in {<<99, 97, 116, 101, 110, 97, 101, 95, 108, 105, 110, 107>>,
                                 <<99, 97, 116, 101, 110, 97, 101, 95, 109, 121, 108, 105,
                                   110, 107>>}

\* the same with the flag of the constructor alone
C24_ThreeWayByConstructorFlag ==
    init_pc = "ready" =>
        IF ctor_args.uid_consumer_group
        THEN consumer_group = <<99, 97, 116, 101, 110, 97, 101, 95, 117, 49>>
        ELSE IF UserGroups # {} THEN consumer_group \in UserGroups
        ELSE consumer_group = GroupPrefix \o Lower(class_name)

\* ------------------------------------------------------------------------
\* loop(): a thread of user code that runs _loop_task
\* ------------------------------------------------------------------------
loopRest == <<synchronous, sequential, input_mode, num_main_threads, num_rpc_threads,
              groupVars, commitVars, consumer_ops, linkVars, histVars, topicVars, cmVars, now, userVars, will_stop,
              rpc_lock, queueVars, curVars, envVars, obsVars, suicide_called>>

\* the process is there until start() calls _exit
ProcessRuns == pc["start"] = "joining"

\* loop(target): the thread is made, started and returned to the caller; the
\* link keeps no reference to it
Loop ==
    /\ ProcessRuns
    /\ pc["loop"] = "absent"
    /\ pc' = [pc EXCEPT !["loop"] = "while"]
    /\ UNCHANGED <<late_calls, loopRest>>

\* while not thread.will_stop
LoopTaskWhile ==
    /\ ProcessRuns
    /\ pc["loop"] = "while"
    /\ pc' = [pc EXCEPT !["loop"] = IF will_stop["loop"] THEN "done" ELSE "call"]
    /\ UNCHANGED <<late_calls, loopRest>>

\* target(...) returns or raises, which is logged, and the thread sleeps for
\* what is left of the interval
LoopTaskCall ==
    /\ ProcessRuns
    /\ pc["loop"] = "call"
    /\ suicide_called => late_calls < MaxLate
    /\ late_calls' = IF suicide_called THEN late_calls + 1 ELSE late_calls
    /\ pc' = [pc EXCEPT !["loop"] = "while"]
    /\ UNCHANGED loopRest

InitLoop ==
    \E syn \in BOOLEAN :
        InitWith(SetExecutionOpts(syn, FALSE, 1, 1), "parity", <<"t1">>, <<"out1">>,
                 MaxMsgs, MaxRpc, MaxDirect, MaxSend)

NextLoop ==
    \/ Start
    \/ Loop
    \/ LoopTaskWhile
    \/ LoopTaskCall
    \/ EngineStep
    \/ ConsumerMainPollRaises
    \/ Signal("SIGTERM")

SpecLoop == InitLoop /\ [][NextLoop]_vars

\* C26: once suicide has been called the stop flag of a thread started by
\* loop() is raised, and the thread begins at most one more invocation of
\* its target.
C26_LoopThreadHonoursShutdown ==
    (suicide_called /\ pc["loop"] \in {"while", "call", "done"}) =>
        /\ will_stop["loop"]
        /\ late_calls <= 1

\* ------------------------------------------------------------------------
\* _commit_kafka_message(consumer, message)
\* ------------------------------------------------------------------------
commitRest == <<synchronous, sequential, input_mode, num_main_threads, num_rpc_threads,
                groupVars, late_calls, consumer_ops, linkVars, histVars, topicVars, cmVars, now,
                userVars, pc, will_stop, rpc_lock, queueVars, curVars, envVars, obsVars,
                suicide_called>>

Failures == Cardinality({i \in 1..Len(commit_log) : commit_log[i] = "failed"})

\* commited = False, attempts = 0
CommitEnter(message) ==
    /\ commit_pc = "idle"
    /\ commit_message' = message
    /\ commited' = FALSE
    /\ attempts' = 0
    /\ commit_pc' = "while"
    /\ UNCHANGED <<commit_log, commitRest>>

\* while not commited: if attempts > 1: the warning
CommitWhile ==
    /\ commit_pc = "while"
    /\ IF commited
       THEN /\ commit_pc' = "returned"
            /\ UNCHANGED commit_log
       ELSE /\ commit_pc' = "try"
            /\ commit_log' = IF attempts > 1 THEN Append(commit_log, "warn") ELSE commit_log
    /\ UNCHANGED <<commit_message, commited, attempts, commitRest>>

\* consumer.commit(message, asynchronous=False): when it raises, the
\* exception is logged and `continue` goes back to the head of the loop
\* past `attempts += 1`
CommitTry ==
    /\ commit_pc = "try"
    /\ \E ok \in BOOLEAN :
         IF ok
         THEN /\ commit_log' = Append(commit_log, "commit")
              /\ commited' = TRUE
              /\ attempts' = attempts + 1
         ELSE /\ Failures < MaxFail
              /\ commit_log' = Append(commit_log, "failed")
              /\ UNCHANGED <<commited, attempts>>
    /\ commit_pc' = "while"
    /\ UNCHANGED <<commit_message, commitRest>>

InitCommit ==
    InitWith(SetExecutionOpts(TRUE, TRUE, 1, 1), "parity", <<"t1">>, <<"out1">>, 0, 0, 0, 0)

NextCommit ==
    \/ \E message \in Msgs : CommitEnter(message)
    \/ CommitWhile
    \/ CommitTry

SpecCommit == InitCommit /\ [][NextCommit]_vars

\* the calls of consumer.commit made so far, as places in the log
CommitCalls == {i \in 1..Len(commit_log) : commit_log[i] \in {"commit", "failed"}}

\* C29: _commit_kafka_message returns only when consumer.commit has gone
\* through, after a failed call another one is on the way, and every call
\* but the first is preceded by a warning.
C29_CommitRetriedWithWarnings ==
    /\ commit_pc = "returned" =>
           (commit_log # <<>> /\ commit_log[Len(commit_log)] = "commit")
    /\ (commit_log # <<>> /\ commit_log[Len(commit_log)] = "failed") =>
           commit_pc \in {"while", "try"}
    /\ \A i \in CommitCalls :
          (\E j \in CommitCalls : j < i) => commit_log[i - 1] = "warn"

\* the same without the warnings
C29_CommitRetriedUntilSuccess ==
    /\ commit_pc = "returned" =>
           (commit_log # <<>> /\ commit_log[Len(commit_log)] = "commit")
    /\ (commit_log # <<>> /\ commit_log[Len(commit_log)] = "failed") =>
           commit_pc \in {"while", "try"}


\* ------------------------------------------------------------------------
\* Peer discovery between two links A and B (C36). Each link's bus RPC
\* worker runs add_to_store for the other's announcement under its own
\* _rpc_lock and probes the other with `available`; the other's JSON-RPC
\* server forwards the probe over the pipe to its monitor, which serves it
\* under its own _rpc_lock. The probe is given up after JSONRPC_CALL_TIMEOUT.
\* ------------------------------------------------------------------------
peerRest == <<execVars, output_topics, startVars, by_uid, by_group, store_call, rpc_link, histVars,
              topicVars, cmVars, now, userVars, pc, will_stop, rpc_lock, queueVars, curVars,
              envVars, obsVars, suicide_called>>

\* start(): rpc_call(to='broadcast', method='add_to_store', ...); the message
\* reaches the other link's broadcast RPC topic
PeerAnnounce(l) ==
    /\ ~peers[l].announced
    /\ peers' = [peers EXCEPT ![l].announced = TRUE, ![Other(l)].inbox = "pending"]
    /\ UNCHANGED peerRest

\* the announcement is polled, dispatched and taken by the RPC worker;
\* add_to_store is a registered method
PeerRpcTake(l) ==
    /\ peers[l].inbox = "pending"
    /\ peers[l].rpc = "idle"
    /\ peers' = [peers EXCEPT ![l].inbox = "taken", ![l].rpc = "acquire"]
    /\ UNCHANGED peerRest

\* self._rpc_lock.acquire() in _kafka_rpc_call
PeerRpcAcquire(l) ==
    /\ peers[l].rpc = "acquire"
    /\ peers[l].lock = NoHolder
    /\ peers' = [peers EXCEPT ![l].lock = "rpc", ![l].rpc = "add"]
    /\ UNCHANGED peerRest

\* add_to_store: the endpoint is not the link's own, so the probe is sent
\* (urlopen in _is_instance_available); the other link's server puts it on
\* the pipe to its monitor
PeerProbeSend(l) ==
    /\ peers[l].rpc = "add"
    /\ peers' = [peers EXCEPT ![l].rpc = "probing", ![l].probe = "sent",
                              ![Other(l)].pipe = "request"]
    /\ UNCHANGED peerRest

\* _rpc_request_monitor: self._jsonrpc_conn1.poll() finds the request
PeerMonitorPoll(l) ==
    /\ peers[l].mon = "loop"
    /\ peers[l].pipe = "request"
    /\ peers' = [peers EXCEPT ![l].mon = "acquire"]
    /\ UNCHANGED peerRest

\* self._rpc_lock.acquire() in _rpc_request_monitor, then recv()
PeerMonitorAcquire(l) ==
    /\ peers[l].mon = "acquire"
    /\ peers[l].lock = NoHolder
    /\ peers' = [peers EXCEPT ![l].lock = "monitor", ![l].pipe = "empty", ![l].mon = "call"]
    /\ UNCHANGED peerRest

\* _jsonrpc_call('available') returns True; finally: release
PeerMonitorCall(l) ==
    /\ peers[l].mon = "call"
    /\ peers' = [peers EXCEPT ![l].lock = NoHolder, ![l].mon = "send"]
    /\ UNCHANGED peerRest

\* self._jsonrpc_conn1.send((error_code, result)): the answer reaches the
\* prober unless it has given up
PeerMonitorSend(l) ==
    /\ peers[l].mon = "send"
    /\ peers' = [peers EXCEPT ![l].mon = "loop",
                              ![Other(l)].probe = IF @ = "sent" THEN "answered" ELSE @]
    /\ UNCHANGED peerRest

\* _is_instance_available returned True: the peer is stored
PeerProbeReturn(l) ==
    /\ peers[l].rpc = "probing"
    /\ peers[l].probe = "answered"
    /\ peers' = [peers EXCEPT ![l].store = @ \cup {Other(l)}, ![l].rpc = "release"]
    /\ UNCHANGED peerRest

\* the answer cannot come: the other link's mutex is held by its own
\* add_to_store, which waits for this link's answer
CrossWait(l) ==
    /\ peers[l].rpc = "probing" /\ peers[l].probe = "sent"
    /\ peers[Other(l)].rpc = "probing" /\ peers[Other(l)].probe = "sent"

\* urlopen raises after JSONRPC_CALL_TIMEOUT: _is_instance_available returns
\* False and add_to_store returns without storing
PeerProbeTimeout(l) ==
    /\ CrossWait(l)
    /\ peers' = [peers EXCEPT ![l].probe = "timed_out", ![l].rpc = "release"]
    /\ UNCHANGED peerRest

\* the finally clause of _kafka_rpc_call
PeerRpcRelease(l) ==
    /\ peers[l].rpc = "release"
    /\ peers' = [peers EXCEPT ![l].lock = NoHolder, ![l].rpc = "done"]
    /\ UNCHANGED peerRest

PeerStep(l) ==
    \/ PeerAnnounce(l)
    \/ PeerRpcTake(l)
    \/ PeerRpcAcquire(l)
    \/ PeerProbeSend(l)
    \/ PeerMonitorPoll(l)
    \/ PeerMonitorAcquire(l)
    \/ PeerMonitorCall(l)
    \/ PeerMonitorSend(l)
    \/ PeerProbeReturn(l)
    \/ PeerProbeTimeout(l)
    \/ PeerRpcRelease(l)

InitPeers ==
    InitWith(SetExecutionOpts(FALSE, FALSE, 1, 1), "parity", <<"t1">>, <<"out1">>,
             MaxMsgs, MaxRpc, MaxDirect, MaxSend)

NextPeers == \E l \in Links : PeerStep(l)

SpecPeers == InitPeers /\ [][NextPeers]_vars

\* every thread of either link that can take a step eventually takes one
FairPeers ==
    /\ SpecPeers
    /\ \A l \in Links : WF_vars(PeerStep(l))

BothAnnounced == \A l \in Links : peers[l].inbox # "none"
BothStored == \A l \in Links : Other(l) \in peers[l].store
ProbeTimedOut == \E l \in Links : peers[l].probe = "timed_out"

\* C36: when two running, reachable links have each received the other's
\* announcement, in the end each one's registry holds the other, however
\* the announcements and the probes interleave.
C36_BothRegistriesFilled ==
    BothAnnounced ~> BothStored

\* the same unless a probe was given up
C36_FilledUnlessProbeTimesOut ==
    BothAnnounced ~> (BothStored \/ ProbeTimedOut)


\* ------------------------------------------------------------------------
\* Addressing a link over the bus (C37): the RPC topics a link subscribes
\* to, the topic rpc_call publishes to, and the dispatcher's routing
\* ------------------------------------------------------------------------
\* 'catenae_rpc_' and 'broadcast'
RpcPrefix == <<99, 97, 116, 101, 110, 97, 101, 95, 114, 112, 99, 95>>
Broadcast == <<98, 114, 111, 97, 100, 99, 97, 115, 116>>

\* _rpc_instance_topic, _rpc_group_topic, _rpc_broadcast_topic
RpcInstanceTopic(uid) == RpcPrefix \o uid
RpcGroupTopic(cls) == RpcPrefix \o Lower(cls)
RpcBroadcastTopic == RpcPrefix \o Broadcast

\* topic = f'catenae_rpc_{to.lower()}' in rpc_call
RpcCallTopic(to) == RpcPrefix \o Lower(to)

\* `if electron.previous_topic in self._rpc_topics` in _input_handler
RoutedPool(previous_topic, rpc_topics) ==
    IF previous_topic \in Range(rpc_topics) THEN "rpc" ELSE "main"

\* UIDs: "a1" and "web1" as utils.get_uid() or a host name may give them,
\* and the host names "Web1" and "U1" (environ['HOSTNAME'] is used verbatim)
LinkUids == {<<97, 49>>, <<119, 101, 98, 49>>, <<87, 101, 98, 49>>, <<85, 49>>}
CallKinds == {"uid", "class", "broadcast"}

\* the `to` argument that addresses the link in one of the three ways
ToOf(kind) ==
    IF kind = "uid" THEN rpc_link.uid
    ELSE IF kind = "class" THEN rpc_link.cls
    ELSE Broadcast

callRest == <<execVars, output_topics, startVars, by_uid, by_group, store_call, peers, histVars,
              topicVars, cmVars, now, userVars, pc, will_stop, rpc_lock, queueVars, curVars,
              envVars, obsVars, suicide_called>>

\* __init__ of the called link: _uid and the three RPC topics
LinkConstruct(uid, cls) ==
    /\ rpc_link = NoLink
    /\ rpc_link' = [uid |-> uid, cls |-> cls,
                    topics |-> <<RpcInstanceTopic(uid), RpcGroupTopic(cls), RpcBroadcastTopic>>,
                    calls |-> <<>>]
    /\ UNCHANGED callRest

\* rpc_call(to=..., method=...) by some other link: the electron is sent to
\* the topic made from `to`
RpcCall(kind) ==
    /\ rpc_link # NoLink
    /\ Len(rpc_link.calls) < MaxCalls
    /\ rpc_link' = [rpc_link EXCEPT !.calls =
                       Append(@, [kind |-> kind, topic |-> RpcCallTopic(ToOf(kind)),
                                  pool |-> "none"])]
    /\ UNCHANGED callRest

\* the message of a call reaches the dispatcher of whoever consumes its
\* topic; at the called link it is routed by its previous_topic
RouteCall(k) ==
    /\ k \in 1..Len(rpc_link.calls)
    /\ rpc_link.calls[k].pool = "none"
    /\ rpc_link' = [rpc_link EXCEPT !.calls[k].pool =
                       RoutedPool(rpc_link.calls[k].topic, rpc_link.topics)]
    /\ UNCHANGED callRest

InitCall ==
    InitWith(SetExecutionOpts(FALSE, FALSE, 1, 1), "parity", <<"t1">>, <<"out1">>,
             MaxMsgs, MaxRpc, MaxDirect, MaxSend)

NextCall ==
    \/ \E uid \in LinkUids, cls \in ClassNames : LinkConstruct(uid, cls)
    \/ \E kind \in CallKinds : RpcCall(kind)
    \/ \E k \in 1..MaxCalls : RouteCall(k)

SpecCall == InitCall /\ [][NextCall]_vars

\* the place in _rpc_topics of the topic a way of addressing is meant for
TopicIndex(kind) == IF kind = "uid" THEN 1 ELSE IF kind = "class" THEN 2 ELSE 3

Addressed(c) ==
    /\ c.topic = rpc_link.topics[TopicIndex(c.kind)]
    /\ c.pool \in {"none", "rpc"}

\* C37: for every UID U, rpc_call(to=U) publishes to the instance RPC topic
\* the link with UID U subscribes to, and its dispatcher gives the message
\* to the RPC pool; likewise for to=<class name> and to='broadcast'.
C37_CallReachesSubscribedTopic ==
    \A k \in 1..Len(rpc_link.calls) : Addressed(rpc_link.calls[k])

\* the same for the UIDs without upper-case letters
C37_ReachesWhenUidIsLowerCase ==
    Lower(rpc_link.uid) = rpc_link.uid =>
        \A k \in 1..Len(rpc_link.calls) : Addressed(rpc_link.calls[k])

====
